---- MODULE Spec2Model ----
(***************************************************************************)
(* A model of dividend-tracker-pro's stock-data resolution engine:         *)
(*   - RateLimiter, CurrencyService, AlphaVantageClient, PolygonClient,    *)
(*     YahooFinanceClient and DataProviderService of src/api_clients.py,   *)
(*   - the configuration of src/config.py,                                 *)
(*   - DataProvider.get_stock_data of src/dividend_tracker_pro.py.         *)
(*                                                                         *)
(* Times are whole seconds; money amounts are whole units.  The wall clock *)
(* (time.time()) normally advances, and it can be set back by the system   *)
(* between any two readings; time.sleep(s) suspends for at least s seconds *)
(* of real time.                                                           *)
(***************************************************************************)
EXTENDS Integers, Sequences, FiniteSets, TLC

VARIABLES
    now,          \* the reading time.time() returns at this moment
    last_call,    \* RateLimiter.last_call, per limiter instance
    call_count,   \* RateLimiter.call_count, per limiter instance
    last_wait,    \* the most recent wait_if_needed call: its limiter,
                  \* its argument and the sleep_time it computed
    api_key,      \* the api_key of AlphaVantageClient and of PolygonClient
    pc,           \* where the current get_stock_data call is
    idx,          \* the position of its loop in provider_order
    symbol,       \* its argument
    result,       \* what it returned
    raised,       \* the class of the exception it let out, "" for none
    calls,        \* the clients it has called, in order
    data,         \* what the client called last did (line 252)
    sent,         \* the outbound requests that client made in doing it
    resolves,     \* the get_stock_data calls started so far
    rates,        \* CurrencyService.rates
    rates_result, \* what the most recent get_rates call did
    fetches,      \* the get_rates calls so far
    answer,       \* SpecYahoo: what Yahoo Finance answers for the symbol
    client_out,   \* SpecYahoo: what YahooFinanceClient.get_stock_data did
    market_symbol, \* SpecMarket: the argument of get_market_info
    market_info,  \* SpecMarket: what MarketRegistry.get_market_info returned
    portfolio,    \* st.session_state.portfolio_data: the symbols held
    results,      \* the local `results` of _perform_portfolio_analysis
    analysis,     \* where _perform_portfolio_analysis is
    stored,       \* st.session_state.analysis_results
    runs,         \* the clicks on "Analyze Portfolio" so far
    run_fetches,  \* the get_currency_rates calls since the last click
    total_usd,    \* the "Total Value (USD)" last displayed, in cents
    db_users,     \* the rows of the table users: username -> password_hash
    db_portfolios, \* the rows of the table portfolios
    db_out,       \* the most recent DatabaseManager call and its result
    session,      \* st.session_state: authenticated, user
    attempt,      \* the most recent input to the login page
    tpc,          \* SpecThreads: the line each thread of wait_if_needed is at
    tloc          \* SpecThreads: each thread's locals and return time

limiter_vars == <<now, last_call, call_count, last_wait>>

resolve_vars ==
    <<api_key, pc, idx, symbol, result, raised, calls, data, sent, resolves>>

rates_vars == <<rates, rates_result, fetches>>

yahoo_vars == <<answer, client_out>>

market_vars == <<market_symbol, market_info>>

analysis_vars ==
    <<portfolio, results, analysis, stored, runs, run_fetches, total_usd>>

thread_vars == <<tpc, tloc>>

store_vars == <<db_users, db_portfolios, db_out, session, attempt>>

app_vars == <<market_vars, analysis_vars, thread_vars, store_vars>>

vars ==
    <<now, last_call, call_count, last_wait, api_key, pc, idx, symbol, result,
      raised, calls, data, sent, resolves, rates, rates_result, fetches,
      answer, client_out, market_symbol, market_info, portfolio, results,
      analysis, stored, runs, run_fetches, total_usd, db_users, db_portfolios,
      db_out, session, attempt, tpc, tloc>>

-----------------------------------------------------------------------------
(* Bounds of the model. *)

\* time.sleep may suspend for up to this many seconds longer than asked.
MaxOversleep == 1
\* The system clock is set back by at most this many seconds at once.
MaxSetBack == 2
\* SpecLimiter: the largest min_interval asked of a limiter.
MaxInterval == 2
\* SpecLimiter: the clock readings explored are StartTime .. StartTime + LimiterSpan.
LimiterSpan == 4
\* SpecLimiter: wait_if_needed calls explored, over both limiter instances.
MaxCalls == 3
\* Spec: get_stock_data calls explored, one after the other.
MaxResolves == 1
\* SpecRates: get_rates calls explored, one after the other.
MaxFetches == 2
\* The first clock reading of a run.
StartTime == 100

-----------------------------------------------------------------------------
(* src/config.py *)

\* AppConfig.api_rate_limit
api_rate_limit == 12

\* The spacing PolygonClient asks of its limiter: wait_if_needed(1).
polygon_min_interval == 1

-----------------------------------------------------------------------------
(* RateLimiter, src/api_clients.py:16-33 *)

\* One RateLimiter instance per rate-limited client (AlphaVantageClient.__init__,
\* PolygonClient.__init__).
Limiters == {"alpha_vantage", "polygon"}

NoWait == [limiter |-> "none", min_interval |-> 0, sleep_time |-> 0]

\* RateLimiter.__init__
RateLimiterInit ==
    /\ last_call = [l \in Limiters |-> 0]
    /\ call_count = [l \in Limiters |-> 0]
    /\ last_wait = NoWait

\* sleep_time of wait_if_needed: 0 when the branch of line 28 is not taken.
SleepTime(current_time, last, min_interval) ==
    LET time_since_last == current_time - last
    IN  IF time_since_last < min_interval
        THEN min_interval - time_since_last
        ELSE 0

\* A limiter that records the reading taken before the wait.
wait_recording_first_reading(l, min_interval) ==
    \E over \in 0..MaxOversleep, back \in 0..MaxSetBack :
        LET current_time == now
            sleep_time == SleepTime(current_time, last_call[l], min_interval)
        IN  /\ now' = current_time + sleep_time
                        + (IF sleep_time > 0 THEN over ELSE 0) - back
            /\ last_call' = [last_call EXCEPT ![l] = current_time]
            /\ call_count' = [call_count EXCEPT ![l] = @ + 1]
            /\ last_wait' = [limiter |-> l, min_interval |-> min_interval,
                             sleep_time |-> sleep_time]

\* RateLimiter.wait_if_needed(min_interval) on limiter l.  The clock is read at
\* line 25 and again at line 32; between the two readings the thread sleeps
\* sleep_time seconds or up to MaxOversleep more, and the system clock may be
\* set back by `back` seconds.
wait_if_needed(l, min_interval) ==
    \E over \in 0..MaxOversleep, back \in 0..MaxSetBack :
        LET current_time == now
            sleep_time == SleepTime(current_time, last_call[l], min_interval)
            woke == current_time + sleep_time
                      + (IF sleep_time > 0 THEN over ELSE 0) - back
        IN  /\ now' = woke
            /\ last_call' = [last_call EXCEPT ![l] = woke]
            /\ call_count' = [call_count EXCEPT ![l] = @ + 1]
            /\ last_wait' = [limiter |-> l, min_interval |-> min_interval,
                             sleep_time |-> sleep_time]

-----------------------------------------------------------------------------
(* The wall clock. *)

\* One second passes.
Tick ==
    /\ now' = now + 1
    /\ UNCHANGED <<last_call, call_count, last_wait>>
    /\ UNCHANGED <<resolve_vars, rates_vars, yahoo_vars, app_vars>>

\* The system clock is set back (an NTP step, an operator's change).
ClockSetBack ==
    /\ \E back \in 1..MaxSetBack : now' = now - back
    /\ UNCHANGED <<last_call, call_count, last_wait>>
    /\ UNCHANGED <<resolve_vars, rates_vars, yahoo_vars, app_vars>>

-----------------------------------------------------------------------------
(* src/models.py: DividendData, StockData *)

\* DividendData.last_dividend_date = None
NoDate == -1

\* A rational number num/den; yield_percent is kept exact.
Ratio(num, den) == [num |-> num, den |-> den]

\* DividendData(): the dataclass defaults (models.py:23-29).
DividendData ==
    [annual_dividend |-> 0, last_dividend |-> 0, last_dividend_date |-> NoDate,
     yield_percent |-> Ratio(0, 1), payment_count |-> 0, status |-> "No data"]

\* StockData(...); __post_init__ replaces an empty company_name by the symbol.
StockData(sym, current_price, currency, company_name, source, dividend_data) ==
    [symbol |-> sym, current_price |-> current_price, currency |-> currency,
     company_name |-> IF company_name = "" THEN sym ELSE company_name,
     source |-> source, dividend_data |-> dividend_data]

NoQuote == StockData("", 0, "", "", "", DividendData)

\* What a call of a client's get_stock_data does: return None, return a
\* StockData, or raise an exception of class exc.
ReturnNone == [kind |-> "none", exc |-> "", quote |-> NoQuote]
ReturnQuote(q) == [kind |-> "quote", exc |-> "", quote |-> q]
Raise(exc) == [kind |-> "raise", exc |-> exc, quote |-> NoQuote]

\* A client without that clause: what its libraries raise gets out as it is.
NoWrap(out) == out

\* `except Exception as e: raise APIError(...)`: the clause that ends each
\* client's get_stock_data (api_clients.py:101-102, 153-154, 192-193).
WrapAsAPIError(out) ==
    IF out.kind = "raise" THEN Raise("APIError") ELSE out

-----------------------------------------------------------------------------
(* src/models.py: MarketInfo, MarketRegistry *)

\* A symbol here is the tuple of its characters: "RIO.L" is RIO_L.
AAPL == <<"A", "A", "P", "L">>
RIO_L == <<"R", "I", "O", ".", "L">>

MarketInfo(suffix, market, country, currency) ==
    [suffix |-> suffix, market |-> market, country |-> country,
     currency |-> currency]

\* A table in which one suffix ends another: "L" comes before ".L".
NestedSuffixMarkets ==
    << MarketInfo(<<"L">>, "Luxembourg Stock Exchange", "LU", "EUR"),
       MarketInfo(<<".", "L">>, "London Stock Exchange", "UK", "GBP"),
       MarketInfo(<<".", "P", "A">>, "Euronext Paris", "FR", "EUR") >>

\* MarketRegistry.MARKETS, in the order of the dict.
MARKETS ==
    << MarketInfo(<<".", "L">>, "London Stock Exchange", "UK", "GBP"),
       MarketInfo(<<".", "P", "A">>, "Euronext Paris", "FR", "EUR"),
       MarketInfo(<<".", "D", "E">>, "XETRA (Germany)", "DE", "EUR"),
       MarketInfo(<<".", "A", "S">>, "Euronext Amsterdam", "NL", "EUR"),
       MarketInfo(<<".", "S", "W">>, "SIX Swiss Exchange", "CH", "CHF"),
       MarketInfo(<<".", "M", "I">>, "Borsa Italiana", "IT", "EUR"),
       MarketInfo(<<".", "M", "C">>, "BME Spanish Exchanges", "ES", "EUR"),
       MarketInfo(<<".", "T", "O">>, "Toronto Stock Exchange", "CA", "CAD"),
       MarketInfo(<<".", "A", "X">>, "Australian Securities Exchange", "AU",
                  "AUD") >>

\* str.endswith
EndsWith(s, suffix) ==
    /\ Len(s) >= Len(suffix)
    /\ SubSeq(s, Len(s) - Len(suffix) + 1, Len(s)) = suffix

\* A registry that knows no exchange.
DefaultMarketOnly(sym) == MarketInfo(<<>>, "US Market (NASDAQ/NYSE)", "US", "USD")

\* MarketRegistry.get_market_info(symbol), lines 92-97: the first entry, in
\* the order of the dict, whose suffix ends the symbol; else the US default.
get_market_info(sym) ==
    LET hits == {i \in DOMAIN MARKETS : EndsWith(sym, MARKETS[i].suffix)}
    IN  IF hits = {}
        THEN MarketInfo(<<>>, "US Market (NASDAQ/NYSE)", "US", "USD")
        ELSE MARKETS[CHOOSE i \in hits : \A j \in hits : i <= j]

\* MarketRegistry.is_uk_stock(symbol), lines 99-102.
is_uk_stock(sym) == EndsWith(sym, <<".", "L">>)

\* get_market_info has not been called on its own.
NoMarketInfo == MarketInfo(<<>>, "", "", "")
NoMarketCall ==
    /\ market_symbol = <<>>
    /\ market_info = NoMarketInfo

\* No portfolio analysis is running, none has run.
NoAnalysis ==
    /\ portfolio = <<>>
    /\ results = <<>>
    /\ analysis = "idle"
    /\ stored = <<>>
    /\ runs = 0
    /\ run_fetches = 0
    /\ total_usd = Ratio(0, 1)

\* database.py:42-86 and main.py:92-101: the tables are empty, no
\* DatabaseManager call has been made, nobody is logged in.
DbCall(op, user_id, sym, shares, kind, returned) ==
    [op |-> op, user_id |-> user_id, symbol |-> sym, shares |-> shares,
     kind |-> kind, returned |-> returned]
NoDbCall == DbCall("none", 0, "", 0, "none", 0)
NoAttempt ==
    [kind |-> "none", username |-> "", password |-> "", outcome |-> ""]
NoUser == [id |-> 0, username |-> ""]
LoggedOut == [authenticated |-> FALSE, user |-> NoUser]
NoStore ==
    /\ db_users = <<>>
    /\ db_portfolios = {}
    /\ db_out = NoDbCall
    /\ session = LoggedOut
    /\ attempt = NoAttempt

\* No thread is inside wait_if_needed.
NoThreads ==
    /\ tpc = <<>>
    /\ tloc = <<>>

AppIdle ==
    /\ NoMarketCall
    /\ NoAnalysis
    /\ NoStore
    /\ NoThreads

-----------------------------------------------------------------------------
(* YahooFinanceClient, src/api_clients.py:156-231 *)

\* A value of the info dict: <<>> when the key is absent or None, <<v>> else.
Absent == <<>>
Present(v) == <<v>>

\* Python's `a or b`: a when a is truthy (present and non-zero), else b.
Or(a, b) == IF a # Absent /\ a[1] # 0 THEN a ELSE b

\* A price chain that looks at the previous close first.
PreviousCloseFirst(info) ==
    Or(info.previousClose,
       Or(info.regularMarketPrice, Or(info.currentPrice, Present(0))))[1]

\* info.get('currentPrice') or info.get('regularMarketPrice')
\*   or info.get('previousClose') or 0     (lines 169-174 and 214-219)
PriceOf(info) ==
    Or(info.currentPrice,
       Or(info.regularMarketPrice, Or(info.previousClose, Present(0))))[1]

\* A window that is the whole history.
WholeHistory(history) == history

\* dividends.tail(8)
TailWindow == 8
DividendsTail(history) ==
    IF Len(history) <= TailWindow THEN history
    ELSE SubSeq(history, Len(history) - TailWindow + 1, Len(history))

\* dividends.last('365D'): the rows dated after (last row's date - 365 days).
YearDays == 365
LastYear(dividends) ==
    LET start_date == dividends[Len(dividends)].day - YearDays
    IN  SelectSeq(dividends, LAMBDA d : d.day > start_date)

RECURSIVE Sum(_)
Sum(dividends) ==
    IF dividends = <<>> THEN 0
    ELSE Head(dividends).amount + Sum(Tail(dividends))

\* The try block of YahooFinanceClient._extract_dividend_data, lines 199-226,
\* on dividend_data = DividendData().  history is stock.dividends (records
\* [day, amount], oldest first); fail_at names the statement that raises, 0
\* for none:
\*   1  stock.dividends.tail(8)             (line 201: the history fetch)
\*   2  dividends.index[-1].strftime(...)   (line 206)
\*   3  dividends.last('365D').sum()        (line 209)
\*   4  the yield computation               (lines 221-222)
\* Statements 2 to 4 run only when the window is not empty.  The result says
\* whether the block raised, and holds dividend_data as it then is.
ExtractTry(history, info, fail_at) ==
    LET dividends == DividendsTail(history)
        last == dividends[Len(dividends)]
        recent_year_dividends == Sum(LastYear(dividends))
        current_price == PriceOf(info)
        d0 == DividendData
        d1 == [d0 EXCEPT !.last_dividend = last.amount]
        d2 == [d1 EXCEPT !.last_dividend_date = last.day]
        d3 == [d2 EXCEPT !.annual_dividend = recent_year_dividends,
                         !.payment_count = Len(dividends)]
        d4 == IF current_price > 0
              THEN [d3 EXCEPT !.yield_percent =
                                 Ratio(recent_year_dividends * 100, current_price)]
              ELSE d3
    IN  IF fail_at = 1 THEN [raised |-> TRUE, d |-> d0]
        ELSE IF dividends = <<>>
             THEN [raised |-> FALSE,
                   d |-> [d0 EXCEPT !.status = "No dividend history found"]]
        ELSE IF fail_at = 2 THEN [raised |-> TRUE, d |-> d1]
        ELSE IF fail_at = 3 THEN [raised |-> TRUE, d |-> d2]
        ELSE IF fail_at = 4 THEN [raised |-> TRUE, d |-> d3]
        ELSE [raised |-> FALSE,
              d |-> [d4 EXCEPT !.status = "Complete dividend data available"]]

\* _extract_dividend_data without its except clause: the exception gets out.
LetDividendErrorOut(r) ==
    IF r.raised THEN [kind |-> "raise", exc |-> "KeyError", d |-> r.d]
    ELSE [kind |-> "return", exc |-> "", d |-> r.d]

\* The except clause and the return of _extract_dividend_data, lines 228-231.
CatchDividendError(r) ==
    [kind |-> "return", exc |-> "",
     d |-> IF r.raised
           THEN [r.d EXCEPT !.status = "Error retrieving dividend data"]
           ELSE r.d]

\* YahooFinanceClient._extract_dividend_data(stock, info), lines 195-231.
_extract_dividend_data(history, info, fail_at) ==
    CatchDividendError(ExtractTry(history, info, fail_at))

\* The body of YahooFinanceClient.get_stock_data's try block, lines 162-190.
\* w is what Yahoo Finance answers for the symbol:
\*   w.fetch     "raise" (stock.info raises), "short" (info is empty or has
\*               fewer than 5 keys) or "ok"
\*   w.info      the price fields, currency and longName of the info dict
\*   w.history, w.fail_at   see _extract_dividend_data
YahooTry(sym, w) ==
    IF w.fetch = "raise" THEN Raise("RequestException")
    ELSE IF w.fetch = "short" THEN ReturnNone
    ELSE LET current_price == PriceOf(w.info)
             dividend_data ==
                 _extract_dividend_data(w.history, w.info, w.fail_at)
         IN  IF current_price = 0 THEN ReturnNone
             ELSE IF dividend_data.kind = "raise" THEN Raise(dividend_data.exc)
             ELSE ReturnQuote(StockData(
                      sym, current_price,
                      IF w.info.currency = Absent THEN "USD"
                      ELSE w.info.currency[1],
                      IF w.info.longName = Absent THEN sym
                      ELSE w.info.longName[1],
                      "Yahoo Finance", dividend_data.d))

\* YahooFinanceClient.get_stock_data(symbol), lines 159-193.
YahooFinanceClient_get_stock_data(sym, w) ==
    WrapAsAPIError(YahooTry(sym, w))

\* Its outbound request, started at t: stock.info (line 163).
YahooRequests(w, t) == <<[request |-> "info", response |-> w.fetch, at |-> t]>>

-----------------------------------------------------------------------------
(* AlphaVantageClient and PolygonClient, src/api_clients.py:59-154 *)

\* The configured keys explored (config.py:28-29 reads them from the
\* environment): none, the placeholder, a real key.
Keys == {"", "demo", "KEY"}

\* A key check that does not know the placeholder.
OnlyEmptyKeyUnconfigured(key) == key = ""

\* AlphaVantageClient.get_stock_data, line 68: the client opts out.
AlphaVantageUnconfigured(key) == key = "" \/ key = "demo"

\* PolygonClient.get_stock_data, line 113.
PolygonUnconfigured(key) == key = ""

\* The try block of AlphaVantageClient.get_stock_data after the limiter,
\* lines 74-99.  w.daily is what ts.get_daily does ("raise", "empty", "ok"),
\* w.close the latest close, w.overview what the OVERVIEW request does
\* ("raise", "noname", "ok").
AlphaVantageTry(sym, w) ==
    IF w.daily = "raise" THEN Raise("ValueError")
    ELSE IF w.daily = "empty" THEN ReturnNone
    ELSE ReturnQuote(StockData(
             sym, w.close, "USD",
             IF w.overview = "ok" THEN "Name" ELSE sym,
             "Alpha Vantage",
             [DividendData EXCEPT
                 !.status = "Limited dividend data from Alpha Vantage"]))

\* An outbound request: what is asked for, what came back, and the second in
\* which it was started.
Request(name, response, at) ==
    [request |-> name, response |-> response, at |-> at]

\* The outbound requests of that try block when the limiter returned at t:
\* get_daily (line 75), then the OVERVIEW request (line 86) when the daily
\* series is usable.  No statement between the two waits, so the second
\* starts as soon as the first has been answered, here within the same second.
AlphaVantageRequests(w, t) ==
    IF w.daily = "ok"
    THEN <<Request("daily", "ok", t), Request("overview", w.overview, t)>>
    ELSE <<Request("daily", w.daily, t)>>

\* The try block of PolygonClient.get_stock_data after the limiter, lines
\* 119-151.  w.prev is what the previous-day request does: "raise" (network
\* error), "non200", "no_results" (resultsCount is 0 or absent), "malformed"
\* (results or c missing) or "ok"; w.c is the close; w.details is what the
\* reference request does ("raise", "non200", "ok").
PolygonTry(sym, w) ==
    IF w.prev = "raise" THEN Raise("RequestException")
    ELSE IF w.prev = "non200" THEN ReturnNone
    ELSE IF w.prev = "no_results" THEN ReturnNone
    ELSE IF w.prev = "malformed" THEN Raise("KeyError")
    ELSE ReturnQuote(StockData(
             sym, w.c, "USD",
             IF w.details = "ok" THEN "Name" ELSE sym,
             "Polygon",
             [DividendData EXCEPT
                 !.status = "Limited dividend data from Polygon"]))

\* Its outbound requests when the limiter returned at t: the previous-day
\* request (line 121), then the reference request (line 137).
PolygonRequests(w, t) ==
    IF w.prev = "ok"
    THEN <<Request("prev", "ok", t), Request("details", w.details, t)>>
    ELSE <<Request("prev", w.prev, t)>>

-----------------------------------------------------------------------------
(* CurrencyService, src/api_clients.py:35-57, and the fallback table of     *)
(* AppConfig, src/config.py:40-46                                           *)

\* A rate is kept in hundredths: 0.85 is 85.
\* AppConfig.default_currency_rates
default_currency_rates ==
    [c \in {"EUR", "GBP", "CHF", "SEK", "NOK", "DKK", "PLN", "CZK", "CAD", "AUD",
            "JPY", "CNY"} |->
        CASE c = "EUR" -> 85   [] c = "GBP" -> 73   [] c = "CHF" -> 88
          [] c = "SEK" -> 1050 [] c = "NOK" -> 1080 [] c = "DKK" -> 640
          [] c = "PLN" -> 400  [] c = "CZK" -> 2200 [] c = "CAD" -> 125
          [] c = "AUD" -> 135  [] c = "JPY" -> 11000 [] c = "CNY" -> 645]

\* The empty dict.
EmptyRates == [c \in {} |-> 0]

\* CurrencyService.__init__
CurrencyServiceInit ==
    /\ rates = EmptyRates
    /\ rates_result = [kind |-> "not called", exc |-> "", value |-> EmptyRates]
    /\ fetches = 0

\* requests.exceptions.RequestException and its subclasses (ConnectionError,
\* Timeout, and from requests 2.27 on JSONDecodeError): what line 52 catches.
IsRequestException(exc) == exc = "RequestException"

\* CurrencyService.get_rates(), lines 41-57: what the call does, and with
\* kind "return" the mapping it returns and stores in self.rates.  a is what
\* the exchange-rate API answers:
\*   a.get     "raise" (requests.get raises a RequestException) or "ok"
\*   a.status  the HTTP status code
\*   a.json    "bad" (response.json() raises a.json_exc: a RequestException
\*             from requests 2.27 on, a plain ValueError before), "no_rates"
\*             (a JSON object without the key 'rates') or "ok"
\*   a.rates   data['rates']
get_rates(a) ==
    LET fallback ==
            [kind |-> "return", exc |-> "", value |-> default_currency_rates]
        raise(exc) ==
            IF IsRequestException(exc) THEN fallback
            ELSE [kind |-> "raise", exc |-> exc, value |-> EmptyRates]
    IN  IF a.get = "raise" THEN raise("RequestException")
        ELSE IF a.status # 200 THEN fallback
        ELSE IF a.json = "bad" THEN raise(a.json_exc)
        ELSE IF a.json = "no_rates" THEN raise("KeyError")
        ELSE [kind |-> "return", exc |-> "", value |-> a.rates]

-----------------------------------------------------------------------------
(* DataProviderService, src/api_clients.py:233-258 *)

Providers == {"yahoo_finance", "alpha_vantage", "polygon"}

\* A chain with the two rate-limited providers swapped.
SecondaryBeforePrimary == <<"yahoo_finance", "polygon", "alpha_vantage">>

\* DataProviderService.__init__, lines 242-246.
provider_order == <<"yahoo_finance", "alpha_vantage", "polygon">>

NotCalled == [kind |-> "not called", exc |-> "", quote |-> NoQuote]

\* No get_stock_data call is running.
ServiceInit ==
    /\ pc = "idle"
    /\ idx = 1
    /\ symbol = ""
    /\ result = NotCalled
    /\ raised = ""
    /\ calls = <<>>
    /\ data = NotCalled
    /\ sent = <<>>
    /\ resolves = 0

\* A coordinator that returns whatever quote a client hands it.
AcceptsAnyQuote(out) == out.kind = "quote"

\* YahooFinanceClient.get_stock_data has not been called on its own.
NoYahooCall ==
    /\ answer = "none"
    /\ client_out = NotCalled

\* Line 253: `if data and data.current_price > 0`.
Accepts(out) == out.kind = "quote" /\ out.quote.current_price > 0

\* A coordinator that converts the price of a London quote in GBP from pence
\* to pounds before it returns it.
ReturnedInMajorUnits(out) ==
    IF out.quote.symbol = "RIO.L" /\ out.quote.currency = "GBP"
    THEN [out EXCEPT !.quote.current_price = @ \div 100]
    ELSE out

\* Line 254: `return data`.
Returned(out) == out

\* Line 255: `except APIError`.
Catches(exc) == exc = "APIError"

\* A coordinator that raises when every provider failed.
AllFailedRaises == Raise("APIError")

\* Line 258: `return None`.
AllFailed == ReturnNone

\* One iteration of the loop of get_stock_data (lines 250-256) and, after the
\* last one, line 258: client p did `out` and made the requests `reqs`.
Coordinate(p, out, reqs) ==
    /\ calls' = Append(calls, p)
    /\ data' = out
    /\ sent' = reqs
    /\ IF out.kind = "raise" /\ ~Catches(out.exc)
       THEN /\ pc' = "raised"
            /\ raised' = out.exc
            /\ UNCHANGED <<idx, result>>
       ELSE IF Accepts(out)
       THEN /\ pc' = "returned"
            /\ result' = Returned(out)
            /\ UNCHANGED <<idx, raised>>
       ELSE IF idx = Len(provider_order)
       THEN /\ pc' = "returned"
            /\ result' = AllFailed
            /\ UNCHANGED <<idx, raised>>
       ELSE /\ idx' = idx + 1
            /\ UNCHANGED <<pc, result, raised>>
    /\ UNCHANGED <<api_key, symbol, resolves>>
    /\ UNCHANGED <<rates_vars, yahoo_vars, app_vars>>

-----------------------------------------------------------------------------
(* Spec: get_stock_data calls of one DataProviderService, one after the other. *)

Symbols == {"AAPL", "RIO.L"}

\* The prices a provider reports: a negative one, zero, a usual one.
Prices == {-1, 0, 150}

Info(currentPrice, regularMarketPrice, previousClose, currency, longName) ==
    [currentPrice |-> currentPrice, regularMarketPrice |-> regularMarketPrice,
     previousClose |-> previousClose, currency |-> currency,
     longName |-> longName]

\* The day the model runs, and the dividend histories Yahoo Finance answers
\* with here.
Today == 1000
OnePayment == <<[day |-> Today - 30, amount |-> 2]>>

\* What Yahoo Finance answers in Spec.
YahooAnswers ==
    [fetch : {"raise", "short"}, info : {Info(Absent, Absent, Absent, Absent, Absent)},
     history : {<<>>}, fail_at : {0}]
    \cup
    [fetch : {"ok"},
     info : {Info(Present(p), Absent, Absent, cur, Present("Name")) :
                p \in Prices, cur \in {Absent, Present("GBP")}},
     history : {OnePayment}, fail_at : {0, 1}]

\* What Alpha Vantage answers.
AlphaVantageAnswers ==
    [daily : {"raise", "empty"}, close : {0}, overview : {"noname"}]
    \cup [daily : {"ok"}, close : Prices, overview : {"raise", "noname", "ok"}]

\* What Polygon answers.
PolygonAnswers ==
    [prev : {"raise", "non200", "no_results", "malformed"}, c : {0},
     details : {"non200"}]
    \cup [prev : {"ok"}, c : Prices, details : {"raise", "non200", "ok"}]

\* The seconds a caller lets pass between two get_stock_data calls.
IdleTimes == {0, 1, api_rate_limit}

Init ==
    /\ now = StartTime
    /\ RateLimiterInit
    /\ ServiceInit
    /\ api_key \in [Limiters -> Keys]
    /\ CurrencyServiceInit
    /\ AppIdle
    /\ NoYahooCall

\* A caller calls get_stock_data(s), d seconds after the call before ended.
StartResolve ==
    /\ pc # "resolving"
    /\ resolves < MaxResolves
    /\ \E s \in Symbols : symbol' = s
    /\ \E d \in IdleTimes : now' = now + d
    /\ pc' = "resolving"
    /\ idx' = 1
    /\ result' = NotCalled
    /\ raised' = ""
    /\ calls' = <<>>
    /\ data' = NotCalled
    /\ sent' = <<>>
    /\ resolves' = resolves + 1
    /\ UNCHANGED <<api_key, last_call, call_count, last_wait>>
    /\ UNCHANGED <<rates_vars, yahoo_vars, app_vars>>

\* The loop reaches self.yahoo_finance.
TryYahoo ==
    /\ pc = "resolving"
    /\ provider_order[idx] = "yahoo_finance"
    /\ \E w \in YahooAnswers :
          Coordinate("yahoo_finance",
                     YahooFinanceClient_get_stock_data(symbol, w),
                     YahooRequests(w, now))
    /\ UNCHANGED limiter_vars

\* The loop reaches self.alpha_vantage (AlphaVantageClient.get_stock_data,
\* lines 66-102).
TryAlphaVantage ==
    /\ pc = "resolving"
    /\ provider_order[idx] = "alpha_vantage"
    /\ IF AlphaVantageUnconfigured(api_key["alpha_vantage"])
       THEN /\ Coordinate("alpha_vantage", ReturnNone, <<>>)
            /\ UNCHANGED limiter_vars
       ELSE /\ wait_if_needed("alpha_vantage", api_rate_limit)
            /\ \E w \in AlphaVantageAnswers :
                  Coordinate("alpha_vantage",
                             WrapAsAPIError(AlphaVantageTry(symbol, w)),
                             AlphaVantageRequests(w, now'))

\* The loop reaches self.polygon (PolygonClient.get_stock_data, lines 111-154).
TryPolygon ==
    /\ pc = "resolving"
    /\ provider_order[idx] = "polygon"
    /\ IF PolygonUnconfigured(api_key["polygon"])
       THEN /\ Coordinate("polygon", ReturnNone, <<>>)
            /\ UNCHANGED limiter_vars
       ELSE /\ wait_if_needed("polygon", polygon_min_interval)
            /\ \E w \in PolygonAnswers :
                  Coordinate("polygon", WrapAsAPIError(PolygonTry(symbol, w)),
                             PolygonRequests(w, now'))

Next ==
    \/ StartResolve
    \/ TryYahoo
    \/ TryAlphaVantage
    \/ TryPolygon

Spec == Init /\ [][Next]_vars

-----------------------------------------------------------------------------
(* DataProvider of the single-file application,                            *)
(* src/dividend_tracker_pro.py:282-549                                     *)

\* DataProvider keeps one last_api_call and one api_call_count for all its
\* providers (lines 288-289): the limiter instance "data_provider".
ProLimiters == {"data_provider"}

\* DataProvider.rate_limit_check(min_interval), lines 294-304: the statements
\* of RateLimiter.wait_if_needed on last_api_call and api_call_count.
rate_limit_check(min_interval) == wait_if_needed("data_provider", min_interval)

\* The dict a get_*_data method returns: the keys all three share.  (The
\* provider's own extra keys, such as last_updated, dividend_data and info,
\* are left out.)
ProData(sym, current_price, currency, source, company_name) ==
    [symbol |-> sym, current_price |-> current_price, currency |-> currency,
     source |-> source, company_name |-> company_name]

\* `except Exception as e: st.warning(...); return None`: the clause that
\* ends each get_*_data method (lines 409-411, 453-455, 547-549).
Swallow(out) == IF out.kind = "raise" THEN ReturnNone ELSE out

\* DataProvider.get_alpha_vantage_data(symbol) with a configured key, lines
\* 377-411.
get_alpha_vantage_data(sym, w) ==
    Swallow(IF w.daily = "raise" THEN Raise("ValueError")
            ELSE IF w.daily = "empty" THEN ReturnNone
            ELSE ReturnQuote(ProData(sym, w.close, "USD", "Alpha Vantage",
                                     IF w.overview = "ok" THEN "Name" ELSE sym)))

\* DataProvider.get_polygon_data(symbol) with a configured key, lines 413-455.
get_polygon_data(sym, w) ==
    Swallow(IF w.prev = "raise" THEN Raise("RequestException")
            ELSE IF w.prev = "non200" THEN ReturnNone
            ELSE IF w.prev = "no_results" THEN ReturnNone
            ELSE IF w.prev = "malformed" THEN Raise("KeyError")
            ELSE ReturnQuote(ProData(sym, w.c, "USD", "Polygon",
                                     IF w.details = "ok" THEN "Name" ELSE sym)))

\* DataProvider.get_yfinance_data(symbol), lines 457-549.
get_yfinance_data(sym, w) ==
    Swallow(IF w.fetch = "raise" THEN Raise("RequestException")
            ELSE IF w.fetch = "short" THEN ReturnNone
            ELSE IF PriceOf(w.info) = 0 THEN ReturnNone
            ELSE ReturnQuote(ProData(
                     sym, PriceOf(w.info),
                     IF w.info.currency = Absent THEN "USD"
                     ELSE w.info.currency[1],
                     "yfinance",
                     IF w.info.longName = Absent THEN sym
                     ELSE w.info.longName[1])))

\* The order of the three blocks of DataProvider.get_stock_data: "Try Alpha
\* Vantage FIRST" (line 334), "Try Polygon SECOND" (line 348), "Try yfinance
\* LAST" (line 362).
pro_order == <<"alpha_vantage", "polygon", "yahoo_finance">>

\* One block of DataProvider.get_stock_data (lines 336-346, 350-360, 363-372)
\* and, after the last, lines 374-375: the method called did `out`.  An
\* exception is caught by the block's `except Exception`.
ProBlock(p, out, reqs) ==
    /\ calls' = Append(calls, p)
    /\ data' = out
    /\ sent' = reqs
    /\ IF out.kind = "quote" /\ out.quote.current_price > 0
       THEN /\ pc' = "returned"
            /\ result' = out
            /\ UNCHANGED idx
       ELSE IF idx = Len(pro_order)
       THEN /\ pc' = "returned"
            /\ result' = ReturnNone
            /\ UNCHANGED idx
       ELSE /\ idx' = idx + 1
            /\ UNCHANGED <<pc, result>>
    /\ UNCHANGED <<api_key, symbol, raised, resolves>>
    /\ UNCHANGED <<rates_vars, yahoo_vars, app_vars>>

\* A block whose `if` on the key (lines 335, 349) is false: the provider is
\* passed over.
ProSkip ==
    /\ idx' = idx + 1
    /\ UNCHANGED <<api_key, pc, symbol, result, raised, calls, data, sent,
                   resolves>>
    /\ UNCHANGED <<rates_vars, yahoo_vars, app_vars>>

-----------------------------------------------------------------------------
(* SpecPro: get_stock_data calls of one DataProvider, one after the other. *)

ProInit ==
    /\ now = StartTime
    /\ last_call = [l \in ProLimiters |-> 0]
    /\ call_count = [l \in ProLimiters |-> 0]
    /\ last_wait = NoWait
    /\ ServiceInit
    /\ api_key \in [Limiters -> Keys]
    /\ CurrencyServiceInit
    /\ AppIdle
    /\ NoYahooCall

ProStart ==
    /\ pc # "resolving"
    /\ resolves < MaxResolves
    /\ \E s \in Symbols : symbol' = s
    /\ \E d \in IdleTimes : now' = now + d
    /\ pc' = "resolving"
    /\ idx' = 1
    /\ result' = NotCalled
    /\ raised' = ""
    /\ calls' = <<>>
    /\ data' = NotCalled
    /\ sent' = <<>>
    /\ resolves' = resolves + 1
    /\ UNCHANGED <<api_key, last_call, call_count, last_wait>>
    /\ UNCHANGED <<rates_vars, yahoo_vars, app_vars>>

\* Lines 334-346.
ProTryAlphaVantage ==
    /\ pc = "resolving"
    /\ pro_order[idx] = "alpha_vantage"
    /\ IF AlphaVantageUnconfigured(api_key["alpha_vantage"])
       THEN /\ ProSkip
            /\ UNCHANGED limiter_vars
       ELSE /\ rate_limit_check(api_rate_limit)
            /\ \E w \in AlphaVantageAnswers :
                  ProBlock("alpha_vantage", get_alpha_vantage_data(symbol, w),
                           AlphaVantageRequests(w, now'))

\* Lines 348-360.
ProTryPolygon ==
    /\ pc = "resolving"
    /\ pro_order[idx] = "polygon"
    /\ IF PolygonUnconfigured(api_key["polygon"])
       THEN /\ ProSkip
            /\ UNCHANGED limiter_vars
       ELSE /\ rate_limit_check(polygon_min_interval)
            /\ \E w \in PolygonAnswers :
                  ProBlock("polygon", get_polygon_data(symbol, w),
                           PolygonRequests(w, now'))

\* Lines 362-375.
ProTryYahoo ==
    /\ pc = "resolving"
    /\ pro_order[idx] = "yahoo_finance"
    /\ \E w \in YahooAnswers :
          ProBlock("yahoo_finance", get_yfinance_data(symbol, w),
                   YahooRequests(w, now))
    /\ UNCHANGED limiter_vars

ProNext ==
    \/ ProStart
    \/ ProTryAlphaVantage
    \/ ProTryPolygon
    \/ ProTryYahoo

SpecPro == ProInit /\ [][ProNext]_vars

-----------------------------------------------------------------------------
(* SpecRates: get_rates calls of one CurrencyService, one after the other. *)

\* The currencies of the payloads explored, and their rates in hundredths.
PayloadCurrencies == {"USD", "EUR", "GBP"}
PayloadValues == {100, 92}

\* data['rates'] of the payloads explored: every mapping of some of
\* PayloadCurrencies, the empty one among them, and one that extends the
\* fallback table.
PayloadRates ==
    UNION {[S -> PayloadValues] : S \in SUBSET PayloadCurrencies}
    \cup {[c \in DOMAIN default_currency_rates \cup {"USD"} |->
              IF c = "USD" THEN 100 ELSE default_currency_rates[c]]}

\* What the exchange-rate API answers.
RateAnswers ==
    [get : {"raise"}, status : {0}, json : {"ok"}, json_exc : {""},
     rates : {EmptyRates}]
    \cup [get : {"ok"}, status : {404, 500}, json : {"ok"}, json_exc : {""},
          rates : {EmptyRates}]
    \cup [get : {"ok"}, status : {200}, json : {"bad"},
          json_exc : {"RequestException", "ValueError"}, rates : {EmptyRates}]
    \cup [get : {"ok"}, status : {200}, json : {"no_rates"}, json_exc : {""},
          rates : {EmptyRates}]
    \cup [get : {"ok"}, status : {200}, json : {"ok"}, json_exc : {""},
          rates : PayloadRates]

RatesInit ==
    /\ now = StartTime
    /\ RateLimiterInit
    /\ ServiceInit
    /\ api_key = [l \in Limiters |-> "KEY"]
    /\ CurrencyServiceInit
    /\ AppIdle
    /\ NoYahooCall

\* A caller calls get_rates(); an exception leaves self.rates as it was.
GetRates ==
    /\ fetches < MaxFetches
    /\ \E a \in RateAnswers :
          LET out == get_rates(a)
          IN  /\ rates_result' = out
              /\ rates' = IF out.kind = "return" THEN out.value ELSE rates
    /\ fetches' = fetches + 1
    /\ UNCHANGED <<limiter_vars, resolve_vars, yahoo_vars, app_vars>>

RatesNext == GetRates

SpecRates == RatesInit /\ [][RatesNext]_vars

-----------------------------------------------------------------------------
(* SpecYahoo: one call of YahooFinanceClient.get_stock_data, for every      *)
(* answer of Yahoo Finance explored.                                        *)

Quarterly(n) == [i \in 1..n |-> [day |-> Today - 30 - 90 * (n - i), amount |-> 1]]

\* stock.dividends: none; one recent payment; a payment 400 days ago and one
\* 100 days ago; a payment 500 days ago and two recent ones; nine quarterly
\* payments.
Histories ==
    { <<>>,
      OnePayment,
      <<[day |-> Today - 400, amount |-> 1], [day |-> Today - 100, amount |-> 2]>>,
      <<[day |-> Today - 500, amount |-> 1], [day |-> Today - 90, amount |-> 1],
        [day |-> Today - 30, amount |-> 1]>>,
      Quarterly(TailWindow + 1) }

\* A price field of info: absent, 0, or the given price.
Field(p) == {Absent, Present(0), Present(p)}

YahooClientAnswers ==
    [fetch : {"raise", "short"},
     info : {Info(Absent, Absent, Absent, Absent, Absent)},
     history : {<<>>}, fail_at : {0}]
    \cup
    [fetch : {"ok"},
     info : {Info(cp, rmp, pcl, cur, Present("Name")) :
                cp \in Field(150) \cup {Present(-1)}, rmp \in Field(149),
                pcl \in Field(148), cur \in {Absent, Present("GBP")}},
     history : Histories, fail_at : 0..4]

YahooInit ==
    /\ now = StartTime
    /\ RateLimiterInit
    /\ ServiceInit
    /\ api_key = [l \in Limiters |-> "KEY"]
    /\ CurrencyServiceInit
    /\ AppIdle
    /\ answer \in YahooClientAnswers
    /\ client_out = NotCalled

\* yahoo_finance.get_stock_data("AAPL")
YahooCall ==
    /\ client_out = NotCalled
    /\ client_out' = YahooFinanceClient_get_stock_data("AAPL", answer)
    /\ UNCHANGED <<answer, limiter_vars, resolve_vars, rates_vars, app_vars>>

YahooNext == YahooCall

SpecYahoo == YahooInit /\ [][YahooNext]_vars

-----------------------------------------------------------------------------
(* Properties of DataProviderService.get_stock_data, checked under Spec. *)

\* The client called last, "" before the first call.
LastCalled == IF calls = <<>> THEN "" ELSE calls[Len(calls)]

IsPrefix(s, t) == Len(s) <= Len(t) /\ s = SubSeq(t, 1, Len(s))

\* C1: get_stock_data returns either None or a quote whose current_price is
\* greater than 0, whatever the providers answer: a quote with a price of 0
\* or less is never returned.
C1_ReturnsPositivePriceOrNone ==
    pc = "returned" =>
        \/ result = ReturnNone
        \/ result.kind = "quote" /\ result.quote.current_price > 0

\* C1 witness: the last provider handed over a quote with a price of 0 or
\* less, and get_stock_data returned None.
C1_Witness ==
    /\ pc = "returned"
    /\ data.kind = "quote"
    /\ data.quote.current_price <= 0
    /\ result = ReturnNone

\* C2: the clients are called in the order tertiary (Yahoo Finance), primary
\* (Alpha Vantage), secondary (Polygon), and a tertiary quote with a price
\* above 0 ends the call: the primary and the secondary are not called.
C2_FixedOrderShortCircuit ==
    /\ IsPrefix(calls, <<"yahoo_finance", "alpha_vantage", "polygon">>)
    /\ (LastCalled = "yahoo_finance" /\ data.kind = "quote"
            /\ data.quote.current_price > 0)
        => (pc = "returned" /\ result = data)

\* C3: an exception raised inside a client reaches the coordinator as an
\* APIError, is caught there, and the next provider is tried (or None is
\* returned after the last); get_stock_data lets no exception out.
C3_ProviderErrorsNeverPropagate ==
    /\ pc # "raised"
    /\ raised = ""
    /\ data.kind = "raise" =>
          /\ data.exc = "APIError"
          /\ IF Len(calls) < 3
             THEN pc = "resolving" /\ idx = Len(calls) + 1
             ELSE pc = "returned" /\ result = ReturnNone

\* C3 witness: the primary client raised and the secondary is tried next.
C3_Witness ==
    /\ LastCalled = "alpha_vantage"
    /\ data.kind = "raise"
    /\ pc = "resolving"
    /\ provider_order[idx] = "polygon"

\* C4: when the tertiary gave no valid quote and the primary gives a quote
\* with a price above 0, get_stock_data returns exactly that quote, its source
\* naming the primary provider, and the secondary is not called.
C4_PrimaryQuoteReturned ==
    /\ (LastCalled = "alpha_vantage" /\ data.kind = "quote"
            /\ data.quote.current_price > 0)
        => /\ pc = "returned"
           /\ result = data
           /\ result.quote.source = "Alpha Vantage"
    /\ (pc = "returned" /\ result.kind = "quote"
            /\ result.quote.source = "Alpha Vantage")
        => calls = <<"yahoo_finance", "alpha_vantage">>

\* C4 witness: the tertiary was called first, and the primary's quote at a
\* price of 150 is what get_stock_data returned.
C4_Witness ==
    /\ pc = "returned"
    /\ calls = <<"yahoo_finance", "alpha_vantage">>
    /\ result.kind = "quote"
    /\ result.quote.source = "Alpha Vantage"
    /\ result.quote.current_price = 150

\* C5: when no provider gives a quote with a price above 0, get_stock_data
\* ends by returning None, without raising, having called each of the three
\* clients exactly once.
C5_ExhaustedReturnsNone ==
    /\ Len(calls) <= 3
    /\ (Len(calls) = 3 /\ ~(data.kind = "quote" /\ data.quote.current_price > 0))
        => (pc = "returned" /\ result = ReturnNone /\ raised = "")
    /\ (pc = "returned" /\ result = ReturnNone)
        => /\ Len(calls) = 3
           /\ {calls[i] : i \in 1..3} = Providers

\* C5 witness: the three clients raised, returned None and returned a quote
\* at a price of 0 or less in some order, and None came back.
C5_Witness ==
    /\ pc = "returned"
    /\ result = ReturnNone
    /\ Len(calls) = 3
    /\ data.kind = "raise"

\* C6: a client without an API key (for the primary, also with the key
\* "demo") returns None and makes no outbound request.
C6_NoKeyNoRequest ==
    /\ (LastCalled = "alpha_vantage" /\ api_key["alpha_vantage"] \in {"", "demo"})
        => (data = ReturnNone /\ sent = <<>>)
    /\ (LastCalled = "polygon" /\ api_key["polygon"] = "")
        => (data = ReturnNone /\ sent = <<>>)

\* C6 witness: the primary client was called with the key "demo".
C6_Witness ==
    /\ LastCalled = "alpha_vantage"
    /\ api_key["alpha_vantage"] = "demo"
    /\ data = ReturnNone
    /\ sent = <<>>

-----------------------------------------------------------------------------
(* SpecLimiter: the RateLimiter instances driven directly. *)

\* The min_interval arguments explored (the default is 1).
Intervals == 0..MaxInterval

LimiterMaxTime == StartTime + LimiterSpan

LimiterInit ==
    /\ now = StartTime
    /\ RateLimiterInit
    /\ ServiceInit
    /\ api_key = [l \in Limiters |-> "KEY"]
    /\ CurrencyServiceInit
    /\ AppIdle
    /\ NoYahooCall

LimiterCall ==
    \E l \in Limiters, n \in Intervals :
        /\ call_count["alpha_vantage"] + call_count["polygon"] < MaxCalls
        /\ wait_if_needed(l, n)
        /\ now' <= LimiterMaxTime
        /\ UNCHANGED <<resolve_vars, rates_vars, yahoo_vars, app_vars>>

LimiterTick ==
    /\ Tick
    /\ now' <= LimiterMaxTime

LimiterSetBack ==
    /\ ClockSetBack
    /\ now' >= StartTime

LimiterNext ==
    \/ LimiterCall
    \/ LimiterTick
    \/ LimiterSetBack

SpecLimiter == LimiterInit /\ [][LimiterNext]_vars

-----------------------------------------------------------------------------
(* SpecMarket: one call of MarketRegistry.get_market_info, for every symbol *)
(* explored.                                                                *)

\* The characters and the longest length of the symbols enumerated in full.
SymbolChars == {"A", "L", "P", ".", "l"}
MaxSymbolLen == 3

RECURSIVE SymbolsUpTo(_)
SymbolsUpTo(n) ==
    IF n = 0 THEN {<<>>}
    ELSE LET shorter == SymbolsUpTo(n - 1)
         IN  shorter \cup {Append(s, c) : s \in shorter, c \in SymbolChars}

\* Every short symbol, AAPL, and RIO with each suffix of the table.
MarketSymbols ==
    SymbolsUpTo(MaxSymbolLen) \cup {AAPL}
    \cup {<<"R", "I", "O">> \o MARKETS[i].suffix : i \in DOMAIN MARKETS}

MarketInit ==
    /\ now = StartTime
    /\ RateLimiterInit
    /\ ServiceInit
    /\ api_key = [l \in Limiters |-> "KEY"]
    /\ rates = EmptyRates
    /\ rates_result = [kind |-> "not called", exc |-> "", value |-> EmptyRates]
    /\ fetches = 0
    /\ NoYahooCall
    /\ market_symbol \in MarketSymbols
    /\ market_info = NoMarketInfo
    /\ NoAnalysis
    /\ NoThreads
    /\ NoStore

\* MarketRegistry.get_market_info(market_symbol)
MarketCall ==
    /\ market_info = NoMarketInfo
    /\ market_info' = get_market_info(market_symbol)
    /\ UNCHANGED <<market_symbol, limiter_vars, resolve_vars, rates_vars,
                   yahoo_vars, analysis_vars, thread_vars, store_vars>>

MarketNext == MarketCall

SpecMarket == MarketInit /\ [][MarketNext]_vars

-----------------------------------------------------------------------------
(* Properties of MarketRegistry.get_market_info, checked under SpecMarket. *)

\* The symbol is some stem followed by the suffix.
HasSuffix(sym, suffix) ==
    \E k \in 0..Len(sym) : SubSeq(sym, k + 1, Len(sym)) = suffix

\* C12: get_market_info gives every symbol that ends in a suffix of the table
\* that entry's country and currency (RIO.L: UK, GBP), and every symbol that
\* ends in none of them the default (AAPL: US, USD); it returns for every
\* symbol.
C12_MarketOfSuffix ==
    market_info # NoMarketInfo =>
        /\ \A i \in DOMAIN MARKETS :
              HasSuffix(market_symbol, MARKETS[i].suffix) =>
                  /\ market_info.country = MARKETS[i].country
                  /\ market_info.currency = MARKETS[i].currency
        /\ (\A i \in DOMAIN MARKETS :
               ~HasSuffix(market_symbol, MARKETS[i].suffix)) =>
                  /\ market_info.country = "US"
                  /\ market_info.currency = "USD"
        /\ market_symbol = RIO_L =>
              market_info.country = "UK" /\ market_info.currency = "GBP"
        /\ market_symbol = AAPL =>
              market_info.country = "US" /\ market_info.currency = "USD"

\* C12 witness: RIO.L was looked up and came back as a London stock in GBP.
C12_Witness ==
    /\ market_symbol = RIO_L
    /\ market_info.market = "London Stock Exchange"
    /\ market_info.country = "UK"
    /\ market_info.currency = "GBP"

\* The entries of the table whose suffix ends the symbol.
Matches(sym) == {i \in DOMAIN MARKETS : EndsWith(sym, MARKETS[i].suffix)}

\* The lookup by longest matching suffix, and the lookup that iterates the
\* table in the order given by the permutation order of its indices.
LongestMatches(sym) ==
    {MARKETS[i] : i \in {h \in Matches(sym) : \A j \in Matches(sym) :
                              Len(MARKETS[h].suffix) >= Len(MARKETS[j].suffix)}}
FirstMatchIn(order, sym) ==
    LET at == {k \in DOMAIN order : order[k] \in Matches(sym)}
    IN  IF at = {} THEN MarketInfo(<<>>, "US Market (NASDAQ/NYSE)", "US", "USD")
        ELSE MARKETS[order[CHOOSE k \in at : \A m \in at : k <= m]]

\* The table iterated forwards, backwards, and rotated by each offset.
IterationOrders ==
    LET n == Len(MARKETS)
    IN  {[k \in 1..n |-> k], [k \in 1..n |-> n + 1 - k]}
        \cup {[k \in 1..n |-> ((k + d - 1) % n) + 1] : d \in 1..(n - 1)}

\* C24: for every symbol, what get_market_info returns (the first match in
\* the order of the table) is the entry of the longest matching suffix, or
\* the default when nothing matches; no suffix of the table ends another, so
\* at most one entry matches and every iteration order of the table gives the
\* same result.
C24_FirstMatchIsLongestMatch ==
    market_info # NoMarketInfo =>
        /\ \A i, j \in DOMAIN MARKETS :
              i # j => ~EndsWith(MARKETS[i].suffix, MARKETS[j].suffix)
        /\ Cardinality(Matches(market_symbol)) <= 1
        /\ IF Matches(market_symbol) = {}
           THEN market_info.country = "US" /\ market_info.suffix = <<>>
           ELSE LongestMatches(market_symbol) = {market_info}
        /\ \A order \in IterationOrders :
              FirstMatchIn(order, market_symbol) = market_info

\* C24 witness: RIO.PA was looked up; the Paris entry, second in the table,
\* is its only match and came back.
C24_Witness ==
    /\ market_symbol = <<"R", "I", "O", ".", "P", "A">>
    /\ Matches(market_symbol) = {2}
    /\ market_info.market = "Euronext Paris"

-----------------------------------------------------------------------------
(* DividendTrackerApp._perform_portfolio_analysis, src/main.py:308-402 *)

\* Money in the analysis is counted in thousandths of the currency unit:
\* shares come in thousandths (the form's step, ui_components.py:62-68) and the
\* prices of the model are whole units.  RoundDiv(a, b) is a / b rounded to
\* the nearest integer, for a >= 0: what the format `:.2f` does to an amount.
RoundDiv(a, b) == (2 * a + b) \div (2 * b)

\* A formatted amount: the text before the digits, and the amount the digits
\* spell, in cents; no digits at all in "N/A".
Formatted(prefix, cents) == [prefix |-> prefix, digits |-> Present(cents)]
NotAvailable == [prefix |-> <<"N/A">>, digits |-> Absent]

\* CurrencyFormatter.format_amount(amount, currency), models.py:107-127, for a
\* number and is_uk_stock = False, as line 347 of main.py calls it.
format_amount(amount, currency) ==
    LET sym == IF currency = "USD" THEN "$" ELSE currency
    IN  IF currency \in {"EUR", "GBP", "CHF", "SEK", "NOK", "DKK", "CAD", "AUD"}
        THEN Formatted(<<sym, " ">>, RoundDiv(amount, 10))
        ELSE Formatted(<<sym>>, RoundDiv(amount, 10))

\* CurrencyFormatter.parse_amount(formatted_amount), models.py:129-138: all
\* but digits and dots is dropped, and a text without digits is 0.0.
parse_amount(formatted) ==
    IF formatted.digits = Absent THEN 0 ELSE formatted.digits[1]

\* AnalysisResult: the fields that tell the rows apart, and position_value.
AnalysisResult(sym, market, country, currency, value, data_source, status) ==
    [symbol |-> sym, market |-> market, country |-> country,
     currency |-> currency, position_value |-> value,
     data_source |-> data_source, status |-> status]

\* Lines 341-347: the position value as displayed; for a '.L' symbol in GBP
\* it is divided by 100, from pence to pounds.
PositionValueFormatted(sym, currency, position_value) ==
    IF is_uk_stock(sym) /\ currency = "GBP"
    THEN Formatted(<<"GBP", " ">>, RoundDiv(position_value, 1000))
    ELSE format_amount(position_value, currency)

\* The row of lines 331-358, built from the quote of get_stock_data for an
\* item of `shares` thousandths of a share.
SuccessRow(sym, shares, stock_data) ==
    LET market == get_market_info(sym)
        currency == IF stock_data.currency # "" THEN stock_data.currency
                    ELSE market.currency
        position_value == shares * stock_data.current_price
    IN  AnalysisResult(sym, market.market, market.country, currency,
                       PositionValueFormatted(sym, currency, position_value),
                       stock_data.source, "Success")

\* The row of lines 360-372: get_stock_data returned None.
FailedRow(sym) ==
    AnalysisResult(sym, "Unknown", "Unknown", "Unknown", NotAvailable,
                   "All sources failed", "Failed")

\* The row of lines 376-391: something inside the try block raised.
ErrorRow(sym) ==
    AnalysisResult(sym, "Unknown", "Unknown", "Unknown", NotAvailable, "Error",
                   "Error")

\* One iteration of the loop, lines 323-393, on the rows collected so far:
\* get_stock_data(sym) did `out`; `formats` says whether building the success
\* row went through (no exception in lines 331-358).
AnalyzeRow(rows, sym, shares, out, formats) ==
    IF out.kind = "raise" THEN Append(rows, ErrorRow(sym))
    ELSE IF out.kind = "none" THEN Append(rows, FailedRow(sym))
    ELSE IF formats THEN Append(rows, SuccessRow(sym, shares, out.quote))
    ELSE Append(rows, ErrorRow(sym))

-----------------------------------------------------------------------------
(* UIComponents.render_portfolio_valuation, src/ui_components.py:171-205 *)

\* Rational numbers of a denominator above 0: the value in lowest terms, and
\* the sum of two.
RECURSIVE GCD(_, _)
GCD(a, b) == IF b = 0 THEN a ELSE GCD(b, a % b)
Lowest(r) ==
    LET g == GCD(r.num, r.den)
    IN  IF r.num = 0 THEN Ratio(0, 1) ELSE Ratio(r.num \div g, r.den \div g)
RatioAdd(a, b) ==
    LET x == Lowest(a)
        y == Lowest(b)
        g == GCD(x.den, y.den)
    IN  Lowest(Ratio(x.num * (y.den \div g) + y.num * (x.den \div g),
                     (x.den \div g) * y.den))

\* A conversion that multiplies by the rate.
usd_value_times_rate(value, currency, currency_rates) ==
    IF currency = "USD" THEN Ratio(value, 1)
    ELSE LET rate == IF currency \in DOMAIN currency_rates
                     THEN currency_rates[currency] ELSE 100
         IN  IF rate > 0 THEN Ratio(value * rate, 100) ELSE Ratio(0, 1)

\* Lines 186-191: the value in USD of `value` cents of `currency`; the rates
\* are in hundredths, and a currency the mapping lacks has the rate 1.
usd_value(value, currency, currency_rates) ==
    IF currency = "USD" THEN Ratio(value, 1)
    ELSE LET rate == IF currency \in DOMAIN currency_rates
                     THEN currency_rates[currency] ELSE 100
         IN  IF rate > 0 THEN Ratio(value * 100, rate) ELSE Ratio(0, 1)

\* render_portfolio_valuation(results, currency_rates): total_usd, in cents,
\* as the loop of lines 180-201 adds it up over the rows whose status holds
\* "Success" and whose position_value is a text other than "N/A".
RECURSIVE render_portfolio_valuation(_, _)
render_portfolio_valuation(rows, currency_rates) ==
    IF rows = <<>> THEN Ratio(0, 1)
    ELSE LET r == rows[Len(rows)]
             before == render_portfolio_valuation(
                           SubSeq(rows, 1, Len(rows) - 1), currency_rates)
         IN  IF r.status = "Success" /\ r.position_value # NotAvailable
             THEN RatioAdd(before,
                           usd_value(parse_amount(r.position_value), r.currency,
                                     currency_rates))
             ELSE before

-----------------------------------------------------------------------------
(* SpecAnalysis: clicks on "Analyze Portfolio" (_render_portfolio_analysis, *)
(* src/main.py:294-306) on one portfolio.                                   *)

\* The longest portfolio and the number of runs explored, and the thousandths
\* of a share each item holds.
MaxPortfolio == 2
MaxRuns == 2
SharesHeld == 2000

PortfolioSymbols == {AAPL, RIO_L}

\* The page offers the button for a portfolio that is not empty (lines
\* 275-278).
Portfolios ==
    UNION {[1..n -> PortfolioSymbols] : n \in 1..MaxPortfolio}

\* What the exchange-rate API answers here: a connection error, a payload
\* without 'rates', a usual payload.
AnalysisRateAnswers ==
    {a \in RateAnswers :
        \/ a.get = "raise"
        \/ a.json = "no_rates"
        \/ /\ a.get = "ok" /\ a.status = 200 /\ a.json = "ok"
           /\ DOMAIN a.rates = PayloadCurrencies
           /\ \A c \in PayloadCurrencies : a.rates[c] = 100}

\* What data_provider.get_stock_data(symbol) does for an item: None, a quote
\* (with or without a currency), an exception.
ItemResolutions(sym) ==
    {ReturnNone, Raise("Exception")}
    \cup {ReturnQuote(StockData(sym, 150, c, "Name", "Yahoo Finance",
                                DividendData)) : c \in {"", "USD"}}

AnalysisInit ==
    /\ now = StartTime
    /\ RateLimiterInit
    /\ ServiceInit
    /\ api_key = [l \in Limiters |-> "KEY"]
    /\ rates = EmptyRates
    /\ rates_result = [kind |-> "not called", exc |-> "", value |-> EmptyRates]
    /\ fetches = 0
    /\ NoYahooCall
    /\ NoMarketCall
    /\ portfolio \in Portfolios
    /\ results = <<>>
    /\ analysis = "idle"
    /\ stored = <<>>
    /\ runs = 0
    /\ run_fetches = 0
    /\ total_usd = Ratio(0, 1)
    /\ NoThreads
    /\ NoStore

analysis_frame ==
    <<limiter_vars, resolve_vars, yahoo_vars, market_vars, thread_vars,
      store_vars>>

\* Lines 303-304 and 310-316: the button is pressed; get_currency_rates() runs
\* before the loop and outside its try block.
AnalysisStart ==
    /\ analysis \in {"idle", "raised", "displayed", "display raised"}
    /\ runs < MaxRuns
    /\ \E a \in AnalysisRateAnswers :
          LET out == get_rates(a)
          IN  /\ rates_result' = out
              /\ rates' = IF out.kind = "return" THEN out.value ELSE rates
              /\ analysis' = IF out.kind = "raise" THEN "raised" ELSE "looping"
    /\ fetches' = fetches + 1
    /\ runs' = runs + 1
    /\ run_fetches' = 1
    /\ results' = <<>>
    /\ UNCHANGED <<portfolio, stored, total_usd, analysis_frame>>

\* Lines 323-393: the next item of the portfolio.
AnalyzeItem ==
    /\ analysis = "looping"
    /\ Len(results) < Len(portfolio)
    /\ LET sym == portfolio[Len(results) + 1]
       IN  \E out \in ItemResolutions(sym), formats \in BOOLEAN :
              results' = AnalyzeRow(results, sym, SharesHeld, out, formats)
    /\ UNCHANGED <<portfolio, analysis, stored, runs, run_fetches, total_usd>>
    /\ UNCHANGED <<rates_vars, analysis_frame>>

\* Lines 396-399: the loop is over; the rows are stored for display.
AnalysisFinish ==
    /\ analysis = "looping"
    /\ Len(results) >= Len(portfolio)
    /\ stored' = results
    /\ analysis' = "done"
    /\ UNCHANGED <<portfolio, results, runs, run_fetches, total_usd>>
    /\ UNCHANGED <<rates_vars, analysis_frame>>

\* Lines 305-306 and 404-416: back in _render_portfolio_analysis, the stored
\* rows are displayed; _display_analysis_results calls get_currency_rates()
\* itself (line 407) and hands the rates to render_portfolio_valuation.
AnalysisDisplay ==
    /\ analysis = "done"
    /\ stored # <<>>
    /\ \E a \in AnalysisRateAnswers :
          LET out == get_rates(a)
          IN  /\ rates_result' = out
              /\ rates' = IF out.kind = "return" THEN out.value ELSE rates
              /\ analysis' = IF out.kind = "raise" THEN "display raised"
                             ELSE "displayed"
              /\ total_usd' = IF out.kind = "raise" THEN total_usd
                              ELSE render_portfolio_valuation(stored, out.value)
    /\ fetches' = fetches + 1
    /\ run_fetches' = run_fetches + 1
    /\ UNCHANGED <<portfolio, results, stored, runs, analysis_frame>>

AnalysisNext ==
    \/ AnalysisStart
    \/ AnalyzeItem
    \/ AnalysisFinish
    \/ AnalysisDisplay

SpecAnalysis == AnalysisInit /\ [][AnalysisNext]_vars

-----------------------------------------------------------------------------
(* Properties of _perform_portfolio_analysis, checked under SpecAnalysis. *)

\* The rows are one per portfolio item, in portfolio order, each a success
\* or marked as failed.
OneRowPerItem(rows) ==
    /\ Len(rows) = Len(portfolio)
    /\ \A i \in 1..Len(rows) :
          /\ rows[i].symbol = portfolio[i]
          /\ rows[i].status \in {"Success", "Failed", "Error"}

\* C13: a run of the portfolio analysis ends with one row per portfolio item,
\* in portfolio order; an item whose resolution returns None or raises gets a
\* row marked failed and does not keep the other items from their rows.
C13_OneRowPerItem ==
    /\ analysis # "raised"
    /\ analysis = "done" => OneRowPerItem(stored)

\* Once get_currency_rates() has returned, the run ends with one row per item.
RowsOncePastRates ==
    analysis = "done" => OneRowPerItem(stored)

\* C22: during one portfolio-analysis run, from the click on "Analyze
\* Portfolio" to the display of its results, the currency rates are fetched
\* at most once.
C22_RatesFetchedOncePerRun == run_fetches <= 1

\* What the code keeps of C22: a run fetches the rates at most twice, once
\* before the loop and once for the display.
RatesFetchedTwicePerRun == run_fetches <= 2

\* The pence-to-pounds scaling is made in the analysis: the position value of
\* a '.L' item quoted in GBP at 150 (pence) is shown in pounds, a hundredth of
\* shares x price, and every other position value is shares x price.
PenceScaledInAnalysis ==
    \A i \in 1..Len(results) :
        results[i].status = "Success" =>
            results[i].position_value.digits
              = IF results[i].symbol = RIO_L /\ results[i].currency = "GBP"
                THEN Present(RoundDiv(SharesHeld * 150, 1000))
                ELSE Present(RoundDiv(SharesHeld * 150, 10))

-----------------------------------------------------------------------------
(* SpecValuation: render_portfolio_valuation on the rows and the rates      *)
(* explored.                                                                *)

\* The most rows valued at once.
MaxValued == 2

\* The rows: a position of 0.001 or of 2 shares of AAPL or of RIO.L, quoted at
\* 14 in one of six currencies or in none, and the rows of a failed item.
ValuationRows ==
    {SuccessRow(sym, shares,
                StockData(sym, 14, c, "Name", "Yahoo Finance", DividendData)) :
        sym \in PortfolioSymbols, shares \in {1, SharesHeld},
        c \in {"", "USD", "EUR", "GBP", "GBp", "JPY"}}
    \cup {FailedRow(sym) : sym \in PortfolioSymbols}
    \cup {ErrorRow(sym) : sym \in PortfolioSymbols}

\* The mappings get_currency_rates() hands over: the fallback table, a usual
\* payload, a payload with a rate of 0 and a negative one, an empty payload.
ValuationRates ==
    { default_currency_rates,
      [c \in {"USD", "EUR", "GBP"} |->
          CASE c = "USD" -> 100 [] c = "EUR" -> 92 [] c = "GBP" -> 80],
      [c \in {"EUR", "GBP"} |-> IF c = "EUR" THEN 0 ELSE -80],
      EmptyRates }

ValuationInit ==
    /\ now = StartTime
    /\ RateLimiterInit
    /\ ServiceInit
    /\ api_key = [l \in Limiters |-> "KEY"]
    /\ rates \in ValuationRates
    /\ rates_result = [kind |-> "return", exc |-> "", value |-> rates]
    /\ fetches = 1
    /\ NoYahooCall
    /\ NoMarketCall
    /\ portfolio = <<>>
    /\ results = <<>>
    /\ analysis = "done"
    /\ stored \in UNION {[1..n -> ValuationRows] : n \in 0..MaxValued}
    /\ runs = 0
    /\ run_fetches = 0
    /\ total_usd = Ratio(0, 1)
    /\ NoThreads
    /\ NoStore

\* render_portfolio_valuation(stored, rates)
ValuationRender ==
    /\ analysis = "done"
    /\ total_usd' = render_portfolio_valuation(stored, rates)
    /\ analysis' = "displayed"
    /\ UNCHANGED <<portfolio, results, stored, runs, run_fetches, rates_vars,
                   analysis_frame>>

ValuationNext == ValuationRender

SpecValuation == ValuationInit /\ [][ValuationNext]_vars

-----------------------------------------------------------------------------
(* Properties of render_portfolio_valuation, checked under SpecValuation. *)

\* What a row adds to the total, in cents: nothing for a failed row; for a
\* successful position of value v its value at face in USD or in a currency
\* the rates lack, nothing at a rate of 0 or less, and v / rate otherwise.
Contribution(r) ==
    IF r.status # "Success" THEN Ratio(0, 1)
    ELSE LET v == r.position_value.digits[1]
             c == r.currency
         IN  IF c = "USD" \/ c \notin DOMAIN rates THEN Ratio(v, 1)
             ELSE IF rates[c] <= 0 THEN Ratio(0, 1)
             ELSE Ratio(v * 100, rates[c])

RECURSIVE ContributionsUpTo(_)
ContributionsUpTo(n) ==
    IF n = 0 THEN Ratio(0, 1)
    ELSE RatioAdd(ContributionsUpTo(n - 1), Contribution(stored[n]))

\* C30: in the USD rollup a successful position of value v in a non-USD
\* currency c adds v / rates[c] to the total, the rates being units of the
\* currency per 1 USD; a position whose currency the rates lack is added at
\* face value, one whose rate is 0 or less adds 0, and failed rows add nothing.
C30_UsdRollup ==
    analysis = "displayed" =>
        LET expected == ContributionsUpTo(Len(stored))
        IN  /\ total_usd.den > 0
            /\ Lowest(total_usd) = Lowest(expected)

\* C30 witness: a EUR position at the rate 0.92 and a failed row were rolled
\* up, and the total is the position's value divided by the rate.
C30_Witness ==
    /\ analysis = "displayed"
    /\ Len(stored) = 2
    /\ stored[1].status = "Success"
    /\ stored[1].currency = "EUR"
    /\ stored[2].status = "Failed"
    /\ "EUR" \in DOMAIN rates
    /\ rates["EUR"] = 92
    /\ stored[1].position_value.digits = Present(2800)
    /\ Lowest(total_usd) = Ratio(70000, 23)

-----------------------------------------------------------------------------
(* Properties of RateLimiter.wait_if_needed, checked under SpecLimiter. *)

\* C7: two consecutive wait_if_needed(n) calls on one RateLimiter record
\* last_call values at least n apart: a second call that comes less than n
\* seconds after the recorded last_call sleeps at least the remaining
\* interval.
C7_ConsecutiveCallsSpaced ==
    [][\A l \in Limiters :
          (call_count[l] >= 1 /\ call_count'[l] = call_count[l] + 1)
          => LET n == last_wait'.min_interval
                 elapsed == now - last_call[l]
             IN  /\ elapsed < n => last_wait'.sleep_time >= n - elapsed
                 /\ last_call'[l] - last_call[l] >= n]_vars

\* The same spacing for the calls during which the system clock is not set
\* back: the reading of line 32 is no earlier than the reading of line 25
\* plus the time slept.
SpacedWhileClockRunsForward ==
    [][\A l \in Limiters :
          (/\ call_count[l] >= 1
           /\ call_count'[l] = call_count[l] + 1
           /\ now' >= now + last_wait'.sleep_time)
          => last_call'[l] - last_call[l] >= last_wait'.min_interval]_vars

-----------------------------------------------------------------------------
(* Properties of CurrencyService.get_rates, checked under SpecRates. *)

\* C8: get_rates never returns an empty mapping, whatever the fetch does
\* (HTTP 200 with any payload, another status, a connection error).
C8_RatesNeverEmpty ==
    rates_result.kind = "return" => DOMAIN rates_result.value # {}

\* C9: get_rates never raises, and every mapping it returns holds at least
\* the twelve currencies of the fallback table: EUR, GBP, CHF, SEK, NOK, DKK,
\* PLN, CZK, CAD, AUD, JPY, CNY.
C9_NeverRaisesAndCoversFallback ==
    /\ rates_result.kind # "raise"
    /\ rates_result.kind = "return" =>
          {"EUR", "GBP", "CHF", "SEK", "NOK", "DKK", "PLN", "CZK", "CAD", "AUD",
           "JPY", "CNY"} \subseteq DOMAIN rates_result.value

\* C21: after every get_rates call the stored snapshot self.rates is exactly
\* the mapping the call returned (the fetched rates or the fallback table,
\* nothing of an earlier snapshot kept beside it), and it is not empty once a
\* fetch has been attempted.
C21_SnapshotReplacedNeverEmpty ==
    fetches > 0 =>
        /\ rates_result.kind = "return" => rates = rates_result.value
        /\ DOMAIN rates # {}

\* The part of C21 that the code keeps: a call that returns has replaced the
\* snapshot by what it returns, and a call that raises has left it alone.
SnapshotIsLastReturned ==
    [][/\ rates_result'.kind = "return" => rates' = rates_result'.value
       /\ rates_result'.kind = "raise" => rates' = rates]_vars

-----------------------------------------------------------------------------
(* Properties of YahooFinanceClient.get_stock_data, checked under SpecYahoo. *)

\* The dividend computation was reached and one of its statements raised.
DividendStepRaised ==
    /\ client_out # NotCalled
    /\ answer.fetch = "ok"
    /\ \E f \in {answer.info.currentPrice, answer.info.regularMarketPrice,
                 answer.info.previousClose} : f # Absent /\ f[1] # 0
    /\ \/ answer.fail_at = 1
       \/ answer.fail_at \in 2..4 /\ answer.history # <<>>

\* C10: an exception raised while the tertiary client computes the dividend
\* figures never costs the quote: get_stock_data returns the quote it returns
\* when nothing fails, but for the dividend summary, whose status reports the
\* error.
C10_DividendFailureKeepsQuote ==
    DividendStepRaised =>
        LET unfailed == YahooFinanceClient_get_stock_data(
                            "AAPL", [answer EXCEPT !.fail_at = 0])
        IN  /\ client_out.kind = "quote"
            /\ unfailed.kind = "quote"
            /\ client_out.quote.current_price = unfailed.quote.current_price
            /\ client_out.quote.current_price # 0
            /\ [client_out.quote EXCEPT !.dividend_data = DividendData]
                 = [unfailed.quote EXCEPT !.dividend_data = DividendData]
            /\ client_out.quote.dividend_data.status
                 = "Error retrieving dividend data"

\* C10 witness: dividends.last('365D') raised after the last payment had
\* been read, and the quote came back at the price of 149.
C10_Witness ==
    /\ DividendStepRaised
    /\ answer.fail_at = 3
    /\ client_out.kind = "quote"
    /\ client_out.quote.current_price = 149
    /\ client_out.quote.dividend_data.last_dividend > 0
    /\ client_out.quote.dividend_data.status = "Error retrieving dividend data"

\* The payments of the trailing window dated within the 365 days that end
\* today.
WithinYearOfToday ==
    SelectSeq(DividendsTail(answer.history),
              LAMBDA d : d.day > Today - 365 /\ d.day <= Today)

\* The quote of a call in which the dividend computation ran to its end on a
\* history that is not empty.
DividendsComputed ==
    /\ client_out.kind = "quote"
    /\ answer.fetch = "ok"
    /\ answer.history # <<>>
    /\ answer.fail_at = 0

\* C11: the annual dividend of the tertiary provider's summary is the sum of
\* the trailing-window payments dated within the 365 days ending now, and the
\* yield is annual dividend / current price * 100 when the price is above 0.
C11_AnnualIsLast365Days ==
    DividendsComputed =>
        LET d == client_out.quote.dividend_data
            price == client_out.quote.current_price
        IN  /\ d.annual_dividend = Sum(WithinYearOfToday)
            /\ price > 0 =>
                  d.yield_percent = Ratio(Sum(WithinYearOfToday) * 100, price)

\* The annual dividend is the sum of the trailing-window payments dated within
\* the 365 days that end at the last payment.
AnnualIsYearBeforeLastPayment ==
    DividendsComputed =>
        LET window == DividendsTail(answer.history)
            last_day == window[Len(window)].day
        IN  client_out.quote.dividend_data.annual_dividend
              = Sum(SelectSeq(window, LAMBDA d : d.day > last_day - 365))

\* C14: when the dividend computation raises, at whichever step, the summary
\* has the error status and every numeric field of it is zero.
C14_ErrorZeroesDividendFields ==
    DividendStepRaised =>
        LET d == client_out.quote.dividend_data
        IN  /\ client_out.kind = "quote"
            /\ d.status = "Error retrieving dividend data"
            /\ d.last_dividend = 0
            /\ d.annual_dividend = 0
            /\ d.payment_count = 0
            /\ d.yield_percent.num = 0

\* The first of the three price fields that is present and not zero, <<>> when
\* there is none.
FirstPrice ==
    LET cp == answer.info.currentPrice
        rmp == answer.info.regularMarketPrice
        pcl == answer.info.previousClose
    IN  IF cp # <<>> /\ cp[1] # 0 THEN cp
        ELSE IF rmp # <<>> /\ rmp[1] # 0 THEN rmp
        ELSE IF pcl # <<>> /\ pcl[1] # 0 THEN pcl
        ELSE <<>>

\* C20: the tertiary provider's price is the first present, non-zero value
\* among currentPrice, regularMarketPrice and previousClose, in that order;
\* with none of them it returns None instead of a quote.
C20_PricePriority ==
    (client_out # NotCalled /\ answer.fetch = "ok") =>
        IF FirstPrice = <<>>
        THEN client_out = ReturnNone
        ELSE /\ client_out.kind = "quote"
             /\ client_out.quote.current_price = FirstPrice[1]

\* C20 witness: currentPrice is 0, regularMarketPrice is absent, and the quote
\* carries previousClose.
C20_Witness ==
    /\ client_out.kind = "quote"
    /\ answer.info.currentPrice = <<0>>
    /\ answer.info.regularMarketPrice = <<>>
    /\ answer.info.previousClose = <<148>>
    /\ client_out.quote.current_price = 148

\* C23 (checked under Spec): get_stock_data returns the winning provider's
\* quote unmodified: current_price, currency, source and every other field
\* are what the provider produced; no pence-to-pounds scaling is applied to a
\* '.L' symbol quoted in GBP.
C23_QuotePassedThroughRaw ==
    (pc = "returned" /\ result.kind = "quote") =>
        /\ data.kind = "quote"
        /\ result.quote.current_price = data.quote.current_price
        /\ result.quote.currency = data.quote.currency
        /\ result.quote.source = data.quote.source
        /\ result = data

\* C23 witness: Yahoo Finance quoted RIO.L at 150 in GBP, and get_stock_data
\* returned the price of 150.
C23_Witness ==
    /\ pc = "returned"
    /\ symbol = "RIO.L"
    /\ LastCalled = "yahoo_finance"
    /\ data.kind = "quote"
    /\ data.quote.currency = "GBP"
    /\ data.quote.current_price = 150
    /\ result.kind = "quote"
    /\ result.quote.current_price = 150

\* The number of records of the trailing window: min(8, payments on record).
WindowSize ==
    IF Len(answer.history) <= TailWindow THEN Len(answer.history) ELSE TailWindow

\* The tertiary client returned a quote, so its dividend summary was built.
SummaryBuilt == client_out.kind = "quote" /\ answer.fetch = "ok"

\* A statement of the dividend computation raised.
SummaryRaised ==
    \/ answer.fail_at = 1
    \/ answer.fail_at \in 2..4 /\ answer.history # <<>>

\* C25, as stated: in the tertiary provider's dividend summary payment_count
\* is the number of records of the trailing window, min(8, number of
\* historical payments), and the status is "No dividend history found" exactly
\* when that window is empty and no exception occurred.
C25_PaymentCountIsWindowSize ==
    SummaryBuilt =>
        LET d == client_out.quote.dividend_data
        IN  /\ d.payment_count = WindowSize
            /\ d.status = "No dividend history found"
                  <=> (WindowSize = 0 /\ ~SummaryRaised)

\* C25, amended: payment_count is the number of records of the trailing
\* window, min(8, number of historical payments), when no exception occurred
\* before it is assigned (line 210), and it is still 0 when one did; the
\* status is "No dividend history found" exactly when the window is empty
\* and no exception occurred.
C25_PaymentCountUnlessRaised ==
    SummaryBuilt =>
        LET d == client_out.quote.dividend_data
        IN  /\ (~SummaryRaised \/ answer.fail_at = 4)
                  => d.payment_count = WindowSize
            /\ (SummaryRaised /\ answer.fail_at # 4) => d.payment_count = 0
            /\ d.status = "No dividend history found"
                  <=> (WindowSize = 0 /\ ~SummaryRaised)

\* C25 witness: nine payments are on record, nothing raised, and the summary
\* counts the eight of the window.
C25_Witness ==
    /\ SummaryBuilt
    /\ Len(answer.history) = TailWindow + 1
    /\ answer.fail_at = 0
    /\ client_out.quote.dividend_data.payment_count = TailWindow
    /\ client_out.quote.dividend_data.status = "Complete dividend data available"

-----------------------------------------------------------------------------
(* Properties of the provider clients, checked under Spec. *)

\* The answers to a price request that are transient failures: a network
\* error, a malformed payload, an HTTP status other than 200.
TransientFailures == {"raise", "malformed", "non200"}

\* C15: a provider client whose price request meets a transient failure
\* (network error, malformed payload, non-200 status) raises APIError; it
\* does not return None.
C15_TransientFailuresRaise ==
    (sent # <<>> /\ sent[1].response \in TransientFailures) =>
        (data.kind = "raise" /\ data.exc = "APIError")

\* C17: any two outbound requests to the primary provider are started at
\* least 12 seconds apart, any two to the secondary provider at least 1
\* second apart.
C17_RequestsSpaced ==
    \A i, j \in DOMAIN sent :
        i < j =>
            /\ LastCalled = "alpha_vantage" => sent[j].at - sent[i].at >= 12
            /\ LastCalled = "polygon" => sent[j].at - sent[i].at >= 1

\* The limiter state a provider's fetches wait on: the client's own
\* rate_limiter where each client has one, the one pair last_api_call and
\* api_call_count of DataProvider otherwise.
GatingLimiter(p) ==
    IF p \in DOMAIN last_call THEN p ELSE CHOOSE l \in DOMAIN last_call : TRUE

\* C19: a fetch through one rate-limited provider leaves the limiter state
\* (last_call, call_count) of every other provider as it was, and a fetch
\* through the tertiary provider changes no limiter state.
C19_OwnLimiterPerProvider ==
    [][\A p \in Providers :
          calls' = Append(calls, p) =>
              /\ \A q \in {"alpha_vantage", "polygon"} \ {p} :
                    /\ last_call'[GatingLimiter(q)] = last_call[GatingLimiter(q)]
                    /\ call_count'[GatingLimiter(q)]
                         = call_count[GatingLimiter(q)]
              /\ p = "yahoo_finance" =>
                    (last_call' = last_call /\ call_count' = call_count)]_vars

-----------------------------------------------------------------------------
(* More properties of RateLimiter.wait_if_needed, checked under SpecLimiter. *)

\* C18: every wait_if_needed call leaves last_call at the clock reading taken
\* after the wait and call_count one higher; with min_interval = 0 it does not
\* sleep, provided the clock has not run backwards since the last call.
C18_RecordsTimeAndCounts ==
    [][\A l \in Limiters :
          (call_count'[l] # call_count[l] \/ last_call'[l] # last_call[l]) =>
              /\ call_count'[l] = call_count[l] + 1
              /\ last_call'[l] = now'
              /\ last_wait'.limiter = l
              /\ (last_wait'.min_interval = 0 /\ now >= last_call[l]) =>
                    last_wait'.sleep_time = 0]_vars

\* C18 witness: the second call on the polygon limiter, with min_interval 0,
\* did not sleep and recorded the current reading.
C18_Witness ==
    /\ last_wait = [limiter |-> "polygon", min_interval |-> 0, sleep_time |-> 0]
    /\ call_count["polygon"] = 2
    /\ last_call["polygon"] = now

-----------------------------------------------------------------------------
(* SpecThreads: two threads inside wait_if_needed(ThreadInterval) of one    *)
(* RateLimiter.  The method takes no lock, so the threads interleave        *)
(* between its statements; the clock only moves forward here.               *)

Threads == {"t1", "t2"}

\* The limiter instance the threads share.
ThreadLimiter == "alpha_vantage"

\* The min_interval both threads pass, and the seconds explored.
ThreadInterval == 2
ThreadSpan == 4

ThreadsInit ==
    /\ now = StartTime
    /\ RateLimiterInit
    /\ ServiceInit
    /\ api_key = [l \in Limiters |-> "KEY"]
    /\ rates = EmptyRates
    /\ rates_result = [kind |-> "not called", exc |-> "", value |-> EmptyRates]
    /\ fetches = 0
    /\ NoYahooCall
    /\ NoMarketCall
    /\ NoAnalysis
    /\ NoStore
    /\ tpc = [t \in Threads |-> "line25"]
    /\ tloc = [t \in Threads |-> [sleep_until |-> 0, count |-> 0, returned |-> 0]]

thread_frame ==
    <<last_wait, resolve_vars, rates_vars, yahoo_vars, market_vars,
      analysis_vars, store_vars>>

\* Lines 25-28: the thread reads the clock and last_call and decides on its
\* sleep.
ThreadReads(t) ==
    /\ tpc[t] = "line25"
    /\ LET sleep_time == SleepTime(now, last_call[ThreadLimiter], ThreadInterval)
       IN  /\ tloc' = [tloc EXCEPT ![t].sleep_until = now + sleep_time]
           /\ tpc' = [tpc EXCEPT ![t] = IF sleep_time > 0 THEN "sleeping"
                                        ELSE "line32"]
    /\ UNCHANGED <<now, last_call, call_count, thread_frame>>

\* Line 30: time.sleep(sleep_time) returns, no earlier than asked.
ThreadWakes(t) ==
    /\ tpc[t] = "sleeping"
    /\ now >= tloc[t].sleep_until
    /\ tpc' = [tpc EXCEPT ![t] = "line32"]
    /\ UNCHANGED <<now, last_call, call_count, tloc, thread_frame>>

\* Line 32: self.last_call = time.time()
ThreadRecords(t) ==
    /\ tpc[t] = "line32"
    /\ last_call' = [last_call EXCEPT ![ThreadLimiter] = now]
    /\ tpc' = [tpc EXCEPT ![t] = "line33"]
    /\ UNCHANGED <<now, call_count, tloc, thread_frame>>

\* Line 33, `self.call_count += 1`: the load of self.call_count ...
ThreadLoadsCount(t) ==
    /\ tpc[t] = "line33"
    /\ tloc' = [tloc EXCEPT ![t].count = call_count[ThreadLimiter]]
    /\ tpc' = [tpc EXCEPT ![t] = "store"]
    /\ UNCHANGED <<now, last_call, call_count, thread_frame>>

\* ... and the store of the sum, after which the call returns.
ThreadStoresCount(t) ==
    /\ tpc[t] = "store"
    /\ call_count' = [call_count EXCEPT ![ThreadLimiter] = tloc[t].count + 1]
    /\ tloc' = [tloc EXCEPT ![t].returned = now]
    /\ tpc' = [tpc EXCEPT ![t] = "done"]
    /\ UNCHANGED <<now, last_call, thread_frame>>

\* One second passes while some thread is still inside the call.
ThreadTick ==
    /\ \E t \in Threads : tpc[t] # "done"
    /\ now < StartTime + ThreadSpan
    /\ now' = now + 1
    /\ UNCHANGED <<last_call, call_count, tpc, tloc, thread_frame>>

ThreadsNext ==
    \/ \E t \in Threads : ThreadReads(t)
    \/ \E t \in Threads : ThreadWakes(t)
    \/ \E t \in Threads : ThreadRecords(t)
    \/ \E t \in Threads : ThreadLoadsCount(t)
    \/ \E t \in Threads : ThreadStoresCount(t)
    \/ ThreadTick

SpecThreads == ThreadsInit /\ [][ThreadsNext]_vars

-----------------------------------------------------------------------------
(* Properties of concurrent wait_if_needed calls, checked under SpecThreads. *)

\* C16: when several threads call wait_if_needed(n) on one RateLimiter at the
\* same time, no two of the calls return less than n seconds apart, and once
\* all have returned call_count is the number of calls.
C16_LimiterSerializesThreads ==
    /\ \A t, u \in DOMAIN tpc :
          (t # u /\ tpc[t] = "done" /\ tpc[u] = "done") =>
              \/ tloc[t].returned - tloc[u].returned >= ThreadInterval
              \/ tloc[u].returned - tloc[t].returned >= ThreadInterval
    /\ (\A t \in DOMAIN tpc : tpc[t] = "done") =>
          \A l \in DOMAIN call_count :
              call_count[l] = IF l = "alpha_vantage" THEN Cardinality(DOMAIN tpc)
                              ELSE 0

\* A single thread's calls are counted: call_count never exceeds the calls
\* that reached line 33.
CountNeverAhead ==
    call_count["alpha_vantage"]
      <= Cardinality({t \in DOMAIN tpc : tpc[t] \in {"store", "done"}})

-----------------------------------------------------------------------------
(* DatabaseManager: the table portfolios, src/database.py:56-66, 147-223 *)

\* Share counts are kept in hundred-thousandths of a share.  The column is
\* `shares DECIMAL(10,4)` (line 61): PostgreSQL rounds what is written to it
\* to four decimals.
Decimal10_4(shares) == RoundDiv(shares, 10) * 10

\* A row of portfolios: user_id, symbol, shares.
PortfolioRow(user_id, sym, shares) ==
    [user_id |-> user_id, symbol |-> sym, shares |-> shares]

\* The rows of a user's symbol: UNIQUE(user_id, symbol), line 64.
RowsOf(rows, user_id, sym) ==
    {r \in rows : r.user_id = user_id /\ r.symbol = sym}

\* An INSERT without the ON CONFLICT clause and without the constraint.
InsertRow(rows, row) == rows \cup {row}

\* Lines 154-160: INSERT ... ON CONFLICT (user_id, symbol) DO UPDATE SET
\* shares = EXCLUDED.shares.
Upsert(rows, row) ==
    (rows \ RowsOf(rows, row.user_id, row.symbol)) \cup {row}

\* DatabaseManager.save_portfolio_item(user_id, symbol, shares), lines
\* 147-176: fails says whether the connection is missing or the statement
\* raises (the rollback of line 175 then leaves the table alone); user_id
\* REFERENCES users(id), so a row for a user nobody is raises too.  What is
\* returned is the row as RETURNING * gives it back.
save_portfolio_item(user_id, sym, shares, fails) ==
    LET row == PortfolioRow(user_id, sym, Decimal10_4(shares))
        known == \E u \in DOMAIN db_users : db_users[u].id = user_id
    IN  IF fails \/ ~known
        THEN /\ db_out' = DbCall("save", user_id, sym, shares, "raise",
                                 "DatabaseError")
             /\ UNCHANGED db_portfolios
        ELSE /\ db_portfolios' = Upsert(db_portfolios, row)
             /\ db_out' = DbCall("save", user_id, sym, shares, "return", row)

\* DatabaseManager.delete_portfolio_item(user_id, symbol), lines 205-223:
\* returns rows_affected > 0.
delete_portfolio_item(user_id, sym, fails) ==
    LET rows_affected == Cardinality(RowsOf(db_portfolios, user_id, sym))
    IN  IF fails
        THEN /\ db_out' = DbCall("delete", user_id, sym, 0, "raise",
                                 "DatabaseError")
             /\ UNCHANGED db_portfolios
        ELSE /\ db_portfolios' = db_portfolios \ RowsOf(db_portfolios, user_id, sym)
             /\ db_out' = DbCall("delete", user_id, sym, 0, "return",
                                 rows_affected > 0)

-----------------------------------------------------------------------------
(* SpecStore: save_portfolio_item and delete_portfolio_item calls on one    *)
(* DatabaseManager, in any order.                                           *)

\* A row of users: id and password_hash; the hash of a password is the
\* password under a tag.
Hash(password) == <<"bcrypt", password>>
UserRow(id, password_hash) == [id |-> id, password_hash |-> password_hash]

\* The users of the store, the ids a caller passes (3 is nobody's), and the
\* share counts saved: 1, 2.5 and 1.23456 shares.
StoreUsers ==
    [u \in {"ann", "bob"} |->
        UserRow(IF u = "ann" THEN 1 ELSE 2, Hash("secret"))]
StoreUserIds == {1, 2, 3}
StoreShares == {100000, 250000, 123456}

store_frame ==
    <<limiter_vars, resolve_vars, rates_vars, yahoo_vars, market_vars,
      analysis_vars, thread_vars>>

StoreInit ==
    /\ now = StartTime
    /\ RateLimiterInit
    /\ ServiceInit
    /\ api_key = [l \in Limiters |-> "KEY"]
    /\ CurrencyServiceInit
    /\ NoYahooCall
    /\ NoMarketCall
    /\ NoAnalysis
    /\ NoThreads
    /\ db_users = StoreUsers
    /\ db_portfolios = {}
    /\ db_out = NoDbCall
    /\ session = LoggedOut
    /\ attempt = NoAttempt

StoreSave ==
    /\ \E user_id \in StoreUserIds, sym \in Symbols, shares \in StoreShares,
          fails \in BOOLEAN :
          save_portfolio_item(user_id, sym, shares, fails)
    /\ UNCHANGED <<db_users, session, attempt, store_frame>>

StoreDelete ==
    /\ \E user_id \in StoreUserIds, sym \in Symbols, fails \in BOOLEAN :
          delete_portfolio_item(user_id, sym, fails)
    /\ UNCHANGED <<db_users, session, attempt, store_frame>>

StoreNext ==
    \/ StoreSave
    \/ StoreDelete

SpecStore == StoreInit /\ [][StoreNext]_vars

-----------------------------------------------------------------------------
(* Properties of the portfolio store, checked under SpecStore. *)

\* The store holds at most one row per (user_id, symbol).
OneRowPerKey(rows) ==
    \A r1, r2 \in rows :
        (r1.user_id = r2.user_id /\ r1.symbol = r2.symbol) => r1 = r2

\* The rows of every other (user_id, symbol) are as they were.
OtherKeysKept(user_id, sym) ==
    {r \in db_portfolios' : ~(r.user_id = user_id /\ r.symbol = sym)}
      = {r \in db_portfolios : ~(r.user_id = user_id /\ r.symbol = sym)}

\* A delete call leaves no row of its key, touches no other, and returns
\* true exactly when there was a row to remove; a call that raises changes
\* nothing.
DeleteEffect ==
    (db_out' # db_out \/ db_portfolios' # db_portfolios) =>
        /\ db_out'.kind = "raise" => db_portfolios' = db_portfolios
        /\ (db_out'.op = "delete" /\ db_out'.kind = "return") =>
              /\ RowsOf(db_portfolios', db_out'.user_id, db_out'.symbol) = {}
              /\ OtherKeysKept(db_out'.user_id, db_out'.symbol)
              /\ db_out'.returned
                   <=> RowsOf(db_portfolios, db_out'.user_id, db_out'.symbol) # {}

\* A save call leaves its key with one row of the share count `shares`.
SaveLeaves(shares) ==
    (db_out' # db_out /\ db_out'.op = "save" /\ db_out'.kind = "return") =>
        /\ RowsOf(db_portfolios', db_out'.user_id, db_out'.symbol)
             = {PortfolioRow(db_out'.user_id, db_out'.symbol, shares)}
        /\ OtherKeysKept(db_out'.user_id, db_out'.symbol)

\* C27, as stated: after any sequence of save_portfolio_item and
\* delete_portfolio_item calls the store holds at most one row per (user_id,
\* symbol); a symbol's share count is the value of the most recent save since
\* its last delete; and delete_portfolio_item returns true exactly when a row
\* existed and was removed.
C27_UpsertAndDelete ==
    /\ []OneRowPerKey(db_portfolios)
    /\ [][SaveLeaves(db_out'.shares) /\ DeleteEffect]_vars

\* C27, amended: the same, the share count being the value of the most recent
\* save rounded to four decimals, as the column DECIMAL(10,4) keeps it, and a
\* call that raises counting neither as a save nor as a delete.
C27_UpsertRoundedAndDelete ==
    /\ []OneRowPerKey(db_portfolios)
    /\ [][SaveLeaves(Decimal10_4(db_out'.shares)) /\ DeleteEffect]_vars

\* C27 witness: 1.23456 shares of AAPL were saved for user 1 over an earlier
\* row; the store holds the one row of 1.2346 shares, and a row of user 2.
C27_Witness ==
    /\ db_out.op = "save"
    /\ db_out.kind = "return"
    /\ db_out.user_id = 1
    /\ db_out.symbol = "AAPL"
    /\ db_out.shares = 123456
    /\ RowsOf(db_portfolios, 1, "AAPL") = {PortfolioRow(1, "AAPL", 123460)}
    /\ RowsOf(db_portfolios, 2, "AAPL") # {}

\* A delete call returned true.
DeleteReturnedTrue ==
    db_out.op = "delete" /\ db_out.kind = "return" /\ db_out.returned

-----------------------------------------------------------------------------
(* Login and signup of the modular app: src/main.py:114-165,                *)
(* src/database.py:91-145, src/models.py:7-12, src/ui_components.py:13-47   *)

\* User(id, username, email, created_at), models.py:7-12: the dataclass has
\* no field password_hash.
User(id, username) == [id |-> id, username |-> username]

\* DatabaseManager.get_user_by_username(username), lines 91-111: a User built
\* from id, username, email and created_at of the row, or None.
get_user_by_username(username) ==
    IF username \in DOMAIN db_users
    THEN User(db_users[username].id, username)
    ELSE NoUser

\* The table users with one more row, lines 118-126; the id is the next of
\* the sequence.
create_user(username, password) ==
    [u \in DOMAIN db_users \cup {username} |->
        IF u = username
        THEN UserRow(Cardinality(DOMAIN db_users) + 1, Hash(password))
        ELSE db_users[u]]

\* The empty string where a hash is expected.
EmptyHash == <<>>

\* DatabaseManager.verify_password(password, hash_password), lines 140-145:
\* bcrypt.checkpw raises on a text that is no bcrypt hash, '' among them, and
\* the except clause makes that False.
verify_password(password, hash_password) ==
    IF hash_password = EmptyHash THEN FALSE
    ELSE hash_password = Hash(password)

\* Line 135: user.password_hash if hasattr(user, 'password_hash') else ''
PasswordHashOf(user) ==
    IF "password_hash" \in DOMAIN user THEN user.password_hash ELSE EmptyHash

\* An input to the login page, and what the handler answered.
Attempt(kind, username, password, outcome) ==
    [kind |-> kind, username |-> username, password |-> password,
     outcome |-> outcome]

\* DividendTrackerApp._handle_login(login_data), lines 130-145; fails says
\* whether the database raises DatabaseError.
_handle_login(username, password, fails) ==
    LET user == get_user_by_username(username)
    IN  IF fails
        THEN /\ attempt' = Attempt("login", username, password, "error")
             /\ UNCHANGED session
        ELSE IF user # NoUser /\ verify_password(password, PasswordHashOf(user))
        THEN /\ session' = [authenticated |-> TRUE, user |-> user]
             /\ attempt' = Attempt("login", username, password, "successful")
        ELSE /\ attempt' = Attempt("login", username, password, "invalid")
             /\ UNCHANGED session

\* The passwords typed, and those of fewer than 6 characters.
Usernames == {"ann", "bob"}
Passwords == {"secret", "hunter2", "abc"}
TooShort(password) == password = "abc"

\* UIComponents.render_signup_form, ui_components.py:25-47, and
\* DividendTrackerApp._handle_signup(signup_data), main.py:147-165.
_handle_signup(username, password, confirm_password, fails) ==
    IF password # confirm_password
    THEN /\ attempt' = Attempt("signup", username, password, "no match")
         /\ UNCHANGED db_users
    ELSE IF TooShort(password)
    THEN /\ attempt' = Attempt("signup", username, password, "too short")
         /\ UNCHANGED db_users
    ELSE IF fails
    THEN /\ attempt' = Attempt("signup", username, password, "error")
         /\ UNCHANGED db_users
    ELSE IF get_user_by_username(username) # NoUser
    THEN /\ attempt' = Attempt("signup", username, password, "exists")
         /\ UNCHANGED db_users
    ELSE /\ db_users' = create_user(username, password)
         /\ attempt' = Attempt("signup", username, password, "created")

-----------------------------------------------------------------------------
(* SpecLogin: the login page of the modular app, signups and logins in any  *)
(* order.                                                                   *)

LoginInit ==
    /\ now = StartTime
    /\ RateLimiterInit
    /\ ServiceInit
    /\ api_key = [l \in Limiters |-> "KEY"]
    /\ CurrencyServiceInit
    /\ NoYahooCall
    /\ AppIdle

\* run() shows the login page while nobody is authenticated (lines 109-112).
Login ==
    /\ ~session.authenticated
    /\ \E username \in Usernames, password \in Passwords, fails \in BOOLEAN :
          _handle_login(username, password, fails)
    /\ UNCHANGED <<db_users, db_portfolios, db_out, store_frame>>

Signup ==
    /\ ~session.authenticated
    /\ \E username \in Usernames, password \in Passwords,
          confirm_password \in Passwords, fails \in BOOLEAN :
          _handle_signup(username, password, confirm_password, fails)
    /\ UNCHANGED <<session, db_portfolios, db_out, store_frame>>

LoginNext ==
    \/ Login
    \/ Signup

SpecLogin == LoginInit /\ [][LoginNext]_vars

-----------------------------------------------------------------------------
(* Properties of the login of the modular app, checked under SpecLogin. *)

\* The step is a login, answered by the database, with the username and the
\* password of an account that was signed up.
LoginOfSignedUpUser ==
    /\ attempt' # attempt
    /\ attempt'.kind = "login"
    /\ attempt'.outcome # "error"
    /\ attempt'.username \in DOMAIN db_users
    /\ db_users[attempt'.username].password_hash = Hash(attempt'.password)

\* C28: in the modular app, after a successful signup with username u and
\* password p, a login with the same u and p sets the session to
\* authenticated, with that user.
C28_SignedUpUserLogsIn ==
    [][LoginOfSignedUpUser =>
          /\ session'.authenticated
          /\ session'.user.username = attempt'.username]_vars

\* What the code does instead: no login ever authenticates the session.
NeverAuthenticated == ~session.authenticated

\* An account was signed up and a login with its password was turned down.
SignedUpLoginRefused ==
    /\ attempt.kind = "login"
    /\ attempt.outcome = "invalid"
    /\ attempt.username \in DOMAIN db_users
    /\ db_users[attempt.username].password_hash = Hash(attempt.password)

-----------------------------------------------------------------------------
(* Login of the single-file app, src/dividend_tracker_debug.py:39-69,       *)
(* 351-393, 400-408, 546-567                                                *)

\* LOWER(username): get_user compares usernames without regard to case.
Lower(username) == IF username = "Ann" THEN "ann" ELSE username

\* DatabaseManager.get_user(username), lines 39-49: the row of users, its
\* password_hash included, or None; an exception is reported and makes None.
DebugGetUser(username, fails) ==
    LET found == {u \in DOMAIN db_users : Lower(u) = Lower(username)}
    IN  IF fails \/ found = {} THEN NoUser
        ELSE LET u == CHOOSE v \in found : TRUE
             IN  [id |-> db_users[u].id, username |-> u,
                  password_hash |-> db_users[u].password_hash]

\* DatabaseManager.verify_password(password, hash_password), lines 67-69.
DebugVerifyPassword(password, hash_password) == hash_password = Hash(password)

\* st.session_state and st.query_params of a browser session that has just
\* opened the app under a URL.
DebugSession(authenticated, user, query_user, query_session) ==
    [authenticated |-> authenticated, user |-> user, query_user |-> query_user,
     query_session |-> query_session]

\* main(), lines 552-561: the "session persistence" of a run that starts
\* unauthenticated: the URL names a user and has a parameter session.
SessionRestored(s, fails) ==
    LET user == DebugGetUser(s.query_user, fails)
    IN  IF ~s.authenticated /\ s.query_user # "" /\ s.query_session
             /\ user # NoUser
        THEN [s EXCEPT !.authenticated = TRUE, !.user = User(user.id, user.username)]
        ELSE s

\* The run shows the login page: main() has nothing to restore.
ShowsLoginPage ==
    /\ ~session.authenticated
    /\ SessionRestored(session, FALSE) = session

DebugUsernames == {"ann", "Ann", "bob"}

-----------------------------------------------------------------------------
(* SpecDebugLogin: browser sessions of the single-file app.                 *)

DebugInit ==
    /\ now = StartTime
    /\ RateLimiterInit
    /\ ServiceInit
    /\ api_key = [l \in Limiters |-> "KEY"]
    /\ CurrencyServiceInit
    /\ NoYahooCall
    /\ NoMarketCall
    /\ NoAnalysis
    /\ NoThreads
    /\ db_users = <<>>
    /\ db_portfolios = {}
    /\ db_out = NoDbCall
    /\ session = DebugSession(FALSE, NoUser, "", FALSE)
    /\ attempt = NoAttempt

\* A browser opens the app under a URL, with or without the parameters user
\* and session; main() runs on a fresh session state.
DebugOpen ==
    /\ \E query_user \in DebugUsernames \cup {""}, query_session \in BOOLEAN,
          fails \in BOOLEAN :
          LET fresh == DebugSession(FALSE, NoUser, query_user, query_session)
              s == SessionRestored(fresh, fails)
          IN  /\ session' = s
              /\ attempt' = Attempt("url", query_user, "",
                                    IF s.authenticated THEN "restored" ELSE "")
    /\ UNCHANGED <<db_users, db_portfolios, db_out, store_frame>>

\* Any run of the script in a session that is not authenticated: main() looks
\* at the URL again.
DebugRerun ==
    /\ ~session.authenticated
    /\ \E fails \in BOOLEAN :
          LET s == SessionRestored(session, fails)
          IN  /\ session' = s
              /\ attempt' = Attempt("url", session.query_user, "",
                                    IF s.authenticated THEN "restored" ELSE "")
    /\ UNCHANGED <<db_users, db_portfolios, db_out, store_frame>>

\* login_page(), lines 357-374: the login form is submitted.
DebugLogin ==
    /\ ShowsLoginPage
    /\ \E username \in DebugUsernames, password \in Passwords, fails \in BOOLEAN :
          LET user == DebugGetUser(username, fails)
          IN  IF user # NoUser
                   /\ DebugVerifyPassword(password, user.password_hash)
              THEN /\ session' = DebugSession(TRUE, User(user.id, user.username),
                                              user.username, TRUE)
                   /\ attempt' = Attempt("login", username, password, "successful")
              ELSE /\ attempt' = Attempt("login", username, password, "invalid")
                   /\ UNCHANGED session
    /\ UNCHANGED <<db_users, db_portfolios, db_out, store_frame>>

\* login_page(), lines 376-393, and create_user, lines 51-65: the signup form
\* is submitted.
DebugSignup ==
    /\ ShowsLoginPage
    /\ \E username \in DebugUsernames, password \in Passwords,
          confirm_password \in Passwords, fails \in BOOLEAN :
          IF password # confirm_password
          THEN /\ attempt' = Attempt("signup", username, password, "no match")
               /\ UNCHANGED db_users
          ELSE IF TooShort(password)
          THEN /\ attempt' = Attempt("signup", username, password, "too short")
               /\ UNCHANGED db_users
          ELSE IF DebugGetUser(username, FALSE) # NoUser
          THEN /\ attempt' = Attempt("signup", username, password, "exists")
               /\ UNCHANGED db_users
          ELSE IF fails
          THEN /\ attempt' = Attempt("signup", username, password, "error")
               /\ UNCHANGED db_users
          ELSE /\ db_users' = create_user(username, password)
               /\ attempt' = Attempt("signup", username, password, "created")
    /\ UNCHANGED <<session, db_portfolios, db_out, store_frame>>

\* main_app(), lines 400-408: Logout clears the session state and the URL.
DebugLogout ==
    /\ session.authenticated
    /\ session' = DebugSession(FALSE, NoUser, "", FALSE)
    /\ attempt' = Attempt("logout", "", "", "")
    /\ UNCHANGED <<db_users, db_portfolios, db_out, store_frame>>

DebugNext ==
    \/ DebugOpen
    \/ DebugRerun
    \/ DebugLogin
    \/ DebugSignup
    \/ DebugLogout

SpecDebugLogin == DebugInit /\ [][DebugNext]_vars

-----------------------------------------------------------------------------
(* Properties of the login of the single-file app, checked under            *)
(* SpecDebugLogin.                                                          *)

\* The step verifies the password typed against the hash of the user that
\* the session then holds.
PasswordVerified ==
    /\ attempt'.kind = "login"
    /\ session'.user.username \in DOMAIN db_users
    /\ Lower(session'.user.username) = Lower(attempt'.username)
    /\ db_users[session'.user.username].password_hash = Hash(attempt'.password)

\* C29: a session becomes authenticated only in a step in which a password
\* verification succeeded for its user, so that in every reachable session
\* state authenticated = true implies such a verification earlier in the
\* session; no other input, URL query parameters that name an existing user
\* among them, sets authenticated to true.
C29_AuthenticatedOnlyByPassword ==
    [][(~session.authenticated /\ session'.authenticated) => PasswordVerified]_vars

\* A session is authenticated that was opened under a URL and never saw a
\* password.
RestoredWithoutPassword ==
    /\ session.authenticated
    /\ attempt.kind = "url"
    /\ attempt.outcome = "restored"

\* The login form authenticates with the right password only.
LoginFormChecksPassword ==
    [][(~session.authenticated /\ session'.authenticated
            /\ attempt'.kind = "login") => PasswordVerified]_vars

-----------------------------------------------------------------------------
(* The primary provider's last dividend: AlphaVantageClient of the          *)
(* single-file app, src/dividend_tracker_debug.py:208-242, and of the       *)
(* modular app, src/api_clients.py:66-104                                   *)

\* A last dividend: the amount and the week it is dated, NoDate for 'N/A'.
LastDividend(amount, date) == [last_dividend |-> amount, last_ex_date |-> date]

\* Lines 224-231: the periods of the series from the latest date down, up to
\* the first whose '7. dividend amount' is above 0.
RECURSIVE ScanNewestFirst(_, _)
ScanNewestFirst(time_series, dates) ==
    IF dates = {} THEN LastDividend(0, NoDate)
    ELSE LET date == CHOOSE d \in dates : \A e \in dates : e <= d
         IN  IF time_series[date] > 0
             THEN LastDividend(time_series[date], date)
             ELSE ScanNewestFirst(time_series, dates \ {date})

\* AlphaVantageClient._get_recent_dividends(symbol) of the single-file app,
\* lines 208-242.  w is what Alpha Vantage answers to the request for
\* TIME_SERIES_WEEKLY_ADJUSTED:
\*   w.fetch        "raise" (the request or response.json() raises),
\*                  "no_series" (no 'Weekly Adjusted Time Series') or "ok"
\*   w.time_series  the dividend amount of every week of the series
_get_recent_dividends(w) ==
    IF w.fetch # "ok" THEN LastDividend(0, NoDate)
    ELSE ScanNewestFirst(w.time_series, DOMAIN w.time_series)

\* AlphaVantageClient.get_stock_data(symbol) of the modular app, lines 66-104,
\* for a usable daily series: the last dividend of the quote it returns.  The
\* client requests the daily series and the overview (AlphaVantageRequests),
\* never the weekly series.
ModularLastDividend ==
    LET out == AlphaVantageTry("AAPL",
                               [daily |-> "ok", close |-> 150, overview |-> "ok"])
    IN  LastDividend(out.quote.dividend_data.last_dividend,
                     out.quote.dividend_data.last_dividend_date)

-----------------------------------------------------------------------------
(* SpecWeekly: the last dividend the two primary clients report, for every  *)
(* weekly series explored.                                                  *)

\* The weeks of the series, oldest first, and the dividend amounts.
MaxWeeks == 3
WeeklyAmounts == {0, 2, 3}

WeeklyAnswers ==
    [fetch : {"raise", "no_series"}, time_series : {<<>>}]
    \cup [fetch : {"ok"},
          time_series : UNION {[D -> WeeklyAmounts] : D \in SUBSET (1..MaxWeeks)}]

WeeklyInit ==
    /\ now = StartTime
    /\ RateLimiterInit
    /\ ServiceInit
    /\ api_key = [l \in Limiters |-> "KEY"]
    /\ CurrencyServiceInit
    /\ AppIdle
    /\ answer \in WeeklyAnswers
    /\ client_out = [kind |-> "not called",
                     single_file |-> LastDividend(0, NoDate),
                     modular |-> LastDividend(0, NoDate)]

\* Each client is asked for the symbol.
WeeklyCall ==
    /\ client_out.kind = "not called"
    /\ client_out' = [kind |-> "called",
                      single_file |-> _get_recent_dividends(answer),
                      modular |-> ModularLastDividend]
    /\ UNCHANGED <<answer, limiter_vars, resolve_vars, rates_vars, app_vars>>

WeeklyNext == WeeklyCall

SpecWeekly == WeeklyInit /\ [][WeeklyNext]_vars

-----------------------------------------------------------------------------
(* Properties of the primary provider's last dividend, checked under        *)
(* SpecWeekly.                                                              *)

\* The weeks of the answer that paid a dividend.
PayingWeeks ==
    IF answer.fetch # "ok" THEN {}
    ELSE {d \in DOMAIN answer.time_series : answer.time_series[d] > 0}

\* The amount and the date of the chronologically latest week that paid a
\* dividend; 0 and no date when no week did or the call failed.
LatestPaying ==
    IF PayingWeeks = {} THEN LastDividend(0, NoDate)
    ELSE LET d == CHOOSE w \in PayingWeeks : \A e \in PayingWeeks : e <= w
         IN  LastDividend(answer.time_series[d], d)

\* C26: the primary provider's last dividend paid is the amount and the date
\* of the chronologically latest weekly period whose dividend amount is above
\* 0, more recent periods of dividend 0 being skipped; when no period has a
\* dividend above 0 or the call fails it is 0 with no date.
C26_LastDividendIsLatestPaying ==
    client_out.kind = "called" =>
        /\ client_out.single_file = LatestPaying
        /\ client_out.modular = LatestPaying

\* What the code keeps of C26: the client of the single-file app reports the
\* latest paying week.
SingleFileScansWeekly ==
    client_out.kind = "called" => client_out.single_file = LatestPaying

\* The latest week paid nothing, an earlier one did, and the single-file
\* client reports the earlier one.
ZeroWeekSkipped ==
    /\ client_out.kind = "called"
    /\ answer.fetch = "ok"
    /\ DOMAIN answer.time_series = 1..MaxWeeks
    /\ answer.time_series[MaxWeeks] = 0
    /\ client_out.single_file = LastDividend(3, 2)

====
